---- MODULE Spec2Model ----
(***************************************************************************)
(* Ingestion pipeline of football-odds: the storage helpers                *)
(* (lib/db/*.ts), storeEvent / storeEvents (lib/services/match-storage.ts) *)
(* and the startup scheduler (lib/services/auto-fetch.ts).                 *)
(*                                                                         *)
(* Two specifications share the variables:                                 *)
(*   Spec       one storeEvents call over an array of feed events, on a    *)
(*              database that starts empty;                                *)
(*   SchedSpec  one fetchAllGamesOnStartup run (fetchPastGames, then       *)
(*              fetchUpcomingGames), with the feed's answers chosen by the *)
(*              environment.                                               *)
(***************************************************************************)
EXTENDS Integers, Sequences, FiniteSets, TLC

\* ------------------------------------------------------------------------
\* Values
\* ------------------------------------------------------------------------
\* JavaScript undefined, for string-valued payload fields and call arguments.
Undefined == "undefined"
\* SQL NULL in a text column.
Null == "null"
\* Absent / NaN / NULL for number-valued fields (all real numbers are >= 0).
NoNum == 0 - 1
\* NULL in an odds column; a decimal odd is the exact fraction <<num, den>>.
NoOdds == <<0, 0>>

Max(a, b) == IF a >= b THEN a ELSE b
\* a minimum that lets its first argument through
MinFirst(a, b) == a
Min(a, b) == IF a <= b THEN a ELSE b

\* ------------------------------------------------------------------------
\* The database: one set of rows per table, and the AUTOINCREMENT counters.
\* ------------------------------------------------------------------------
Tables == {"leagues", "teams", "players", "matches", "matchPlayers",
           "matchOdds", "matchStatistics", "playerMatchStats"}

EmptyDb ==
  [leagues |-> {}, teams |-> {}, players |-> {}, matches |-> {},
   matchPlayers |-> {}, matchOdds |-> {}, matchStatistics |-> {},
   playerMatchStats |-> {}, seq |-> [t \in Tables |-> 0]]

\* drizzle .values({col: undefined}) omits the column: it is stored NULL.
InsCol(v) == IF v = Undefined THEN Null ELSE v
\* drizzle .set({col: undefined}) drops the key: the column keeps its value.
SetCol(old, v) == IF v = Undefined THEN old ELSE v

NoRow == [id |-> 0]

\* db.insert(table).values(row).returning(): the row gets the next id.
InsertRow(db, table, fields) ==
  LET row == [id |-> db.seq[table] + 1] @@ fields
  IN  [db  |-> [db EXCEPT ![table] = @ \cup {row},
                          !.seq = [@ EXCEPT ![table] = @ + 1]],
       row |-> row, threw |-> FALSE]

Threw(db) == [db |-> db, row |-> NoRow, threw |-> TRUE]

\* an upsertLeague that updates the row it finds, the way upsertTeam does
UpsertLeagueOverwrite(db, data) ==
  LET key == IF data.espnLeagueCode = Undefined THEN "" ELSE data.espnLeagueCode
      existing == {l \in db.leagues : l.espnLeagueCode = key}
  IN  IF existing # {}
      THEN LET old == CHOOSE l \in existing : TRUE
               new == [old EXCEPT !.name = data.name, !.slug = SetCol(@, data.slug)]
           IN  [db |-> [db EXCEPT !.leagues = (@ \ {old}) \cup {new}],
                row |-> new, threw |-> FALSE]
      ELSE InsertRow(db, "leagues",
             [name |-> data.name, slug |-> data.slug,
              espnLeagueCode |-> InsCol(data.espnLeagueCode)])

\* lib/db/leagues.ts upsertLeague: looked up by (espnLeagueCode || ""),
\* returned unchanged when found, inserted otherwise.  A row stored with a
\* NULL code is matched by no lookup (NULL = '' is not true in SQL).
UpsertLeague(db, data) ==
  LET key == IF data.espnLeagueCode = Undefined THEN "" ELSE data.espnLeagueCode
      existing == {l \in db.leagues : l.espnLeagueCode = key}
  IN  IF existing # {}
      THEN [db |-> db, row |-> CHOOSE l \in existing : TRUE, threw |-> FALSE]
      ELSE InsertRow(db, "leagues",
             [name |-> data.name, slug |-> data.slug,
              espnLeagueCode |-> InsCol(data.espnLeagueCode)])

\* lib/db/teams.ts upsertTeam: last-write-wins on name/abbreviation/logoUrl.
\* teams.name is NOT NULL: an insert without a name is rejected; an update
\* whose three values are all undefined has nothing to set and is rejected.
UpsertTeam(db, data) ==
  LET existing == {t \in db.teams : t.espnTeamId = data.espnTeamId}
  IN  IF existing # {}
      THEN IF data.name = Undefined /\ data.abbreviation = Undefined
                /\ data.logoUrl = Undefined
           THEN Threw(db)
           ELSE LET old == CHOOSE t \in existing : TRUE
                    new == [old EXCEPT !.name = SetCol(@, data.name),
                                       !.abbreviation = SetCol(@, data.abbreviation),
                                       !.logoUrl = SetCol(@, data.logoUrl)]
                IN  [db |-> [db EXCEPT !.teams = (@ \ {old}) \cup {new}],
                     row |-> new, threw |-> FALSE]
      ELSE IF data.name = Undefined \/ data.espnTeamId = Undefined
           THEN Threw(db)
           ELSE InsertRow(db, "teams",
                  [espnTeamId |-> data.espnTeamId, name |-> data.name,
                   abbreviation |-> InsCol(data.abbreviation),
                   logoUrl |-> InsCol(data.logoUrl)])

\* lib/db/players.ts upsertPlayer: last-write-wins on name/position.
UpsertPlayer(db, data) ==
  LET existing == {p \in db.players : p.espnPlayerId = data.espnPlayerId}
  IN  IF existing # {}
      THEN IF data.name = Undefined /\ data.position = Undefined
           THEN Threw(db)
           ELSE LET old == CHOOSE p \in existing : TRUE
                    new == [old EXCEPT !.name = SetCol(@, data.name),
                                       !.position = SetCol(@, data.position)]
                IN  [db |-> [db EXCEPT !.players = (@ \ {old}) \cup {new}],
                     row |-> new, threw |-> FALSE]
      ELSE IF data.name = Undefined
           THEN Threw(db)
           ELSE InsertRow(db, "players",
                  [espnPlayerId |-> data.espnPlayerId, name |-> data.name,
                   position |-> InsCol(data.position)])

\* lib/db/matches.ts upsertMatch: keyed by espnEventId; the update sets the
\* eight data columns, the insert creates the row.
UpsertMatch(db, data) ==
  LET existing == {m \in db.matches : m.espnEventId = data.espnEventId}
  IN  IF existing # {}
      THEN LET old == CHOOSE m \in existing : TRUE
               new == [old EXCEPT !.leagueId = data.leagueId,
                                  !.homeTeamId = data.homeTeamId,
                                  !.awayTeamId = data.awayTeamId,
                                  !.date = data.date,
                                  !.venue = SetCol(@, data.venue),
                                  !.status = data.status,
                                  !.homeScore = data.homeScore,
                                  !.awayScore = data.awayScore]
           IN  [db |-> [db EXCEPT !.matches = (@ \ {old}) \cup {new}],
                row |-> new, threw |-> FALSE]
      ELSE InsertRow(db, "matches",
             [espnEventId |-> data.espnEventId, leagueId |-> data.leagueId,
              homeTeamId |-> data.homeTeamId, awayTeamId |-> data.awayTeamId,
              date |-> data.date, venue |-> InsCol(data.venue),
              status |-> data.status, homeScore |-> data.homeScore,
              awayScore |-> data.awayScore])

\* lib/db/matches.ts getLatestMatchDate: the largest stored date, or none.
GetLatestMatchDate(db) ==
  IF db.matches = {} THEN NoNum
  ELSE LET m == CHOOSE x \in db.matches : \A y \in db.matches : y.date <= x.date
       IN  m.date

\* insertMatchPlayer without the existence check
InsertMatchPlayerAlways(db, data) ==
  InsertRow(db, "matchPlayers",
    [matchId |-> data.matchId, playerId |-> data.playerId,
     teamId |-> data.teamId, isHome |-> data.isHome])

\* lib/db/matches.ts insertMatchPlayer: insert-if-absent on the triple.
InsertMatchPlayer(db, data) ==
  LET existing == {r \in db.matchPlayers :
                      /\ r.matchId = data.matchId
                      /\ r.playerId = data.playerId
                      /\ r.teamId = data.teamId}
  IN  IF existing # {}
      THEN [db |-> db, row |-> CHOOSE r \in existing : TRUE, threw |-> FALSE]
      ELSE InsertRow(db, "matchPlayers",
             [matchId |-> data.matchId, playerId |-> data.playerId,
              teamId |-> data.teamId, isHome |-> data.isHome])

\* lib/db/matches.ts insertMatchOdds: a plain insert.
InsertMatchOdds(db, data) ==
  InsertRow(db, "matchOdds",
    [matchId |-> data.matchId, homeOdds |-> data.homeOdds,
     drawOdds |-> data.drawOdds, awayOdds |-> data.awayOdds,
     provider |-> InsCol(data.provider)])

\* lib/db/matches.ts insertMatchStatistics: a plain insert.
InsertMatchStatistics(db, data) ==
  InsertRow(db, "matchStatistics",
    [matchId |-> data.matchId, teamId |-> data.teamId,
     possession |-> data.possession, shots |-> data.shots,
     shotsOnTarget |-> data.shotsOnTarget, corners |-> data.corners,
     fouls |-> data.fouls,
     yellowCards |-> IF data.yellowCards = NoNum THEN 0 ELSE data.yellowCards,
     redCards |-> IF data.redCards = NoNum THEN 0 ELSE data.redCards])

StatFields == {"goals", "shotsOnTarget", "assists", "passes",
               "passesCompleted", "tackles", "interceptions", "saves",
               "yellowCards", "redCards"}

\* lib/db/matches.ts upsertPlayerMatchStats: keyed by (matchId, playerId);
\* an existing row has each field replaced by the given value (kept when the
\* value is not given), otherwise a row is inserted with 0 for absent values.
UpsertPlayerMatchStats(db, data) ==
  LET existing == {r \in db.playerMatchStats :
                      r.matchId = data.matchId /\ r.playerId = data.playerId}
      Repl(old, f) == IF data[f] # NoNum THEN data[f] ELSE old[f]
      Dflt(f) == IF data[f] = NoNum THEN 0 ELSE data[f]
  IN  IF existing # {}
      THEN LET old == CHOOSE r \in existing : TRUE
               new == [f \in DOMAIN old |->
                         IF f \in StatFields THEN Repl(old, f) ELSE old[f]]
           IN  [db |-> [db EXCEPT !.playerMatchStats = (@ \ existing) \cup {new}],
                row |-> new, threw |-> FALSE]
      ELSE InsertRow(db, "playerMatchStats",
             [matchId |-> data.matchId, playerId |-> data.playerId,
              teamId |-> data.teamId, goals |-> Dflt("goals"),
              shotsOnTarget |-> Dflt("shotsOnTarget"),
              assists |-> Dflt("assists"), passes |-> Dflt("passes"),
              passesCompleted |-> Dflt("passesCompleted"),
              tackles |-> Dflt("tackles"),
              interceptions |-> Dflt("interceptions"),
              saves |-> Dflt("saves"), yellowCards |-> Dflt("yellowCards"),
              redCards |-> Dflt("redCards")])

\* match-storage.ts 515-517: delete every playerMatchStats row of the match.
DeletePlayerMatchStats(db, matchId) ==
  [db EXCEPT !.playerMatchStats = {r \in @ : r.matchId # matchId}]

\* ------------------------------------------------------------------------
\* Pure helpers of match-storage.ts
\* ------------------------------------------------------------------------
RECURSIVE Concat(_)
Concat(ss) == IF ss = <<>> THEN <<>> ELSE Head(ss) \o Concat(Tail(ss))

\* A season slug is the sequence of its hyphen-separated tokens ("" is <<>>).
FourDigits == {"2024", "2025"}
TwoDigits == {"25", "26"}

\* word.charAt(0).toUpperCase() + word.slice(1), over the words in use.
TitleCaseWord(w) ==
  CASE w = "english" -> "English" [] w = "premier" -> "Premier"
    [] w = "league" -> "League"   [] w = "spanish" -> "Spanish"
    [] w = "la" -> "La"           [] w = "liga" -> "Liga"
    [] w = "mystery" -> "Mystery" [] w = "cup" -> "Cup"
    [] OTHER -> w

RECURSIVE JoinWords(_)
JoinWords(ws) ==
  IF ws = <<>> THEN ""
  ELSE IF Len(ws) = 1 THEN TitleCaseWord(ws[1])
  ELSE TitleCaseWord(ws[1]) \o " " \o JoinWords(Tail(ws))

\* a lookup without the fallback to the long form
LeagueMapNoFallback(long) ==
  CASE long = "English Premier League" -> "Premier League"
    [] long = "Spanish La Liga" -> "La Liga"
    [] OTHER -> Undefined

\* The synonym table of parseLeagueName.
LeagueMap(long) ==
  CASE long = "English Premier League" -> "Premier League"
    [] long = "Spanish La Liga" -> "La Liga"
    [] long = "Italian Serie A" -> "Serie A"
    [] long = "German Bundesliga" -> "Bundesliga"
    [] long = "French Ligue 1" -> "Ligue 1"
    [] long = "French Ligue 2" -> "Ligue 2"
    [] long = "Argentine Liga Professional" -> "Liga Professional"
    [] long = "Liga Professional" -> "Liga Professional"
    [] long = "Liga Profesional" -> "Liga Professional"
    [] long = "Liga Profesional De Futbol" -> "Liga Professional"
    [] long = "Liga Profesional Argentina" -> "Liga Professional"
    [] long = "Torneo Clausura" -> "Liga Professional"
    [] long = "Major League Soccer" -> "MLS"
    [] OTHER -> long

\* parseLeagueName: strip a leading YYYY-YY- prefix, title-case, look up.
ParseLeagueName(slug) ==
  IF slug = <<>> THEN "Unknown League"
  ELSE LET withoutYear ==
             IF Len(slug) >= 3 /\ slug[1] \in FourDigits /\ slug[2] \in TwoDigits
             THEN SubSeq(slug, 3, Len(slug)) ELSE slug
       IN  LeagueMap(JoinWords(withoutYear))

\* a conversion that gives 0 where parseFloat gives NaN
AmericanToDecimalZero(o) ==
  IF o.kind # "num" THEN <<0, 1>>
  ELSE IF o.n > 0 THEN <<100 + o.n, 100>>
  ELSE <<(0 - o.n) + 100, 0 - o.n>>

\* americanToDecimal: an odds string is [kind, n] with kind "absent" (no
\* string), "text" (parseFloat gives NaN) or "num" (parseFloat gives n).
\* The result is the exact fraction <<num, den>>, NoOdds for null.
AmericanToDecimal(o) ==
  IF o.kind # "num" THEN NoOdds
  ELSE IF o.n > 0 THEN <<100 + o.n, 100>>
  ELSE <<(0 - o.n) + 100, 0 - o.n>>

\* storeEvent 382-390: a missing or empty odds string gives null without
\* calling americanToDecimal.
OddsOf(o) == IF o.kind = "absent" THEN NoOdds ELSE AmericanToDecimal(o)

\* String.toLowerCase over the statistic names and abbreviations in use.
ToLowerCase(s) ==
  CASE s = "possessionPct" -> "possessionpct" [] s = "totalShots" -> "totalshots"
    [] s = "shotsOnTarget" -> "shotsontarget" [] s = "wonCorners" -> "woncorners"
    [] s = "foulsCommitted" -> "foulscommitted"
    [] s = "goalAssists" -> "goalassists"     [] s = "totalPasses" -> "totalpasses"
    [] s = "ST" -> "st" [] s = "SH" -> "sh" [] s = "A" -> "a" [] s = "SV" -> "sv"
    [] s = "PP" -> "pp" [] s = "CW" -> "cw" [] s = "FC" -> "fc" [] s = "P" -> "p"
    [] s = Undefined -> ""
    [] OTHER -> s

\* String.includes over the lower-cased names and abbreviations in use.
Includes(s, sub) ==
  <<s, sub>> \in {<<"totalshots", "shot">>, <<"shotsontarget", "shot">>,
                  <<"shotsontarget", "target">>, <<"goalassists", "assist">>,
                  <<"saves", "save">>, <<"totalpasses", "pass">>,
                  <<"sv", "sv">>}

\* storeEvent 180-257: which playerStat field a statistic's athlete list feeds.
ClassifyAthleteStat(name, abbreviation) ==
  LET statName == ToLowerCase(name)
      statAbbr == ToLowerCase(abbreviation)
  IN  IF \/ (Includes(statName, "shot") /\ Includes(statName, "target"))
         \/ Includes(statAbbr, "sot")
         \/ statName = "shotsontarget" \/ statName = "shots on target"
      THEN "shotsOnTarget"
      ELSE IF Includes(statName, "assist") \/ Includes(statAbbr, "ast")
              \/ statAbbr = "a"
      THEN "assists"
      ELSE IF (Includes(statName, "pass") /\ ~Includes(statName, "complete"))
              \/ Includes(statAbbr, "pass")
      THEN "passes"
      ELSE IF (Includes(statName, "pass") /\ Includes(statName, "complete"))
              \/ Includes(statName, "completed pass")
              \/ Includes(statAbbr, "comp")
      THEN "passesCompleted"
      ELSE IF Includes(statName, "tackle") \/ Includes(statAbbr, "tkl")
              \/ statAbbr = "tk"
      THEN "tackles"
      ELSE IF Includes(statName, "intercept") \/ Includes(statAbbr, "int")
              \/ statAbbr = "i"
      THEN "interceptions"
      ELSE IF Includes(statName, "save") \/ Includes(statAbbr, "sv")
              \/ statAbbr = "s"
      THEN "saves"
      ELSE "none"

\* storeEvent 184-197 extractPlayerValue.
ExtractPlayerValue(athlete) ==
  IF athlete.value # NoNum THEN athlete.value
  ELSE IF athlete.stat # NoNum THEN athlete.stat
  ELSE IF athlete.displayValue # NoNum THEN athlete.displayValue
  ELSE 1

\* ------------------------------------------------------------------------
\* playerStatsMap: a Map keyed by `${player.id}-${match.id}`; the match id is
\* fixed within one storeEvent, so the key is the player id.  Kept as the
\* sequence of its entries in insertion order.
\* ------------------------------------------------------------------------
NewPlayerStat(playerId, teamId) ==
  [playerId |-> playerId, teamId |-> teamId, goals |-> 0, shotsOnTarget |-> 0,
   assists |-> 0, passes |-> 0, passesCompleted |-> 0, tackles |-> 0,
   interceptions |-> 0, saves |-> 0, yellowCards |-> 0, redCards |-> 0]

MapHas(map, playerId) == \E i \in 1..Len(map) : map[i].playerId = playerId

MapSetIfAbsent(map, playerId, teamId) ==
  IF MapHas(map, playerId) THEN map
  ELSE Append(map, NewPlayerStat(playerId, teamId))

\* the entry of playerId with field f replaced by v
MapPut(map, playerId, f, v) ==
  [i \in 1..Len(map) |->
     IF map[i].playerId = playerId THEN [map[i] EXCEPT ![f] = v] ELSE map[i]]

MapGet(map, playerId) ==
  map[CHOOSE i \in 1..Len(map) : map[i].playerId = playerId]

\* ------------------------------------------------------------------------
\* storeEvent (match-storage.ts 62-537)
\* ------------------------------------------------------------------------
\* competitors.find((c) => c.homeAway === tag): index of the first, 0 if none
FindTagged(competitors, tag) ==
  IF \E i \in 1..Len(competitors) : competitors[i].homeAway = tag
  THEN CHOOSE i \in 1..Len(competitors) :
         /\ competitors[i].homeAway = tag
         /\ \A j \in 1..(i - 1) : competitors[j].homeAway # tag
  ELSE 0

\* competitors.find((c) => c.team.id === id): index of the first, 0 if none
FindTeam(competitors, id) ==
  IF \E i \in 1..Len(competitors) : competitors[i].team.id = id
  THEN CHOOSE i \in 1..Len(competitors) :
         /\ competitors[i].team.id = id
         /\ \A j \in 1..(i - 1) : competitors[j].team.id # id
  ELSE 0

\* a status that looks at the state before the completed flag
MatchStatusStateFirst(e) ==
  IF e.hasStatus /\ e.state = "in" THEN "live"
  ELSE IF e.hasStatus /\ e.completed THEN "completed"
  ELSE "scheduled"

\* storeEvent 106-112
MatchStatus(e) ==
  IF e.hasStatus /\ e.completed THEN "completed"
  ELSE IF e.hasStatus /\ e.state = "in" THEN "live"
  ELSE "scheduled"

\* storeEvent 125: venue?.fullName || venue?.displayName
VenueOf(e) ==
  IF e.venueFullName # Undefined /\ e.venueFullName # ""
  THEN e.venueFullName ELSE e.venueDisplayName

\* storeEvent 135-143: the athletes of the statistics lists, in loop order
StatAthletes(c) ==
  IF ~c.hasStatistics THEN <<>>
  ELSE Concat([i \in 1..Len(c.statistics) |->
         LET st == c.statistics[i]
         IN  IF ~st.hasAthletes THEN <<>>
             ELSE [j \in 1..Len(st.athletes) |->
                     [isHome |-> c.homeAway = "home", name |-> st.name,
                      abbreviation |-> st.abbreviation,
                      athlete |-> st.athletes[j]]]])

AthleteEntries(e) ==
  Concat([i \in 1..Len(e.competitors) |-> StatAthletes(e.competitors[i])])

\* a merge that adds the statistic's value to the field it feeds
RaiseStatSum(map, playerId, f, v) ==
  IF f = "none" THEN map
  ELSE MapPut(map, playerId, f, MapGet(map, playerId)[f] + v)

\* storeEvent 199-257: the statistic's value is kept when it exceeds the
\* player's current value of the field it feeds
RaiseStat(map, playerId, f, v) ==
  IF f = "none" THEN map
  ELSE MapPut(map, playerId, f, Max(MapGet(map, playerId)[f], v))

\* storeEvent 152-257, once the player row is upserted
LinkAthlete(ctx, en, up, teamId, matchId) ==
  IF up.threw THEN [ctx EXCEPT !.threw = TRUE]
  ELSE [ctx EXCEPT
          !.db = InsertMatchPlayer(up.db,
                   [matchId |-> matchId, playerId |-> up.row.id,
                    teamId |-> teamId, isHome |-> en.isHome]).db,
          !.map = RaiseStat(MapSetIfAbsent(ctx.map, up.row.id, teamId),
                            up.row.id,
                            ClassifyAthleteStat(en.name, en.abbreviation),
                            ExtractPlayerValue(en.athlete))]

\* storeEvent 144-258: one athlete of one statistic's list
ProcessAthlete(ctx, en, homeId, awayId, matchId) ==
  IF ctx.threw \/ en.athlete.id = "" THEN ctx
  ELSE LinkAthlete(ctx, en,
         UpsertPlayer(ctx.db, [espnPlayerId |-> en.athlete.id,
                               name |-> en.athlete.displayName,
                               position |-> en.athlete.position]),
         IF en.isHome THEN homeId ELSE awayId, matchId)

RECURSIVE ProcessAthletes(_, _, _, _, _)
ProcessAthletes(ctx, entries, homeId, awayId, matchId) ==
  IF entries = <<>> THEN ctx
  ELSE ProcessAthletes(ProcessAthlete(ctx, Head(entries), homeId, awayId, matchId),
                       Tail(entries), homeId, awayId, matchId)

\* storeEvent 266-274: the involved athletes of the details, in loop order
DetailEntries(e) ==
  IF ~e.hasDetails THEN <<>>
  ELSE Concat([k \in 1..Len(e.details) |->
         LET d == e.details[k]
         IN  IF ~d.hasAthletes THEN <<>>
             ELSE [i \in 1..Len(d.athletesInvolved) |->
                     [detail |-> d, i |-> i - 1,
                      athlete |-> d.athletesInvolved[i]]]])

\* playerStatsMap.get(key).f += 1
MapIncrement(map, playerId, f) ==
  MapPut(map, playerId, f, MapGet(map, playerId)[f] + 1)

\* storeEvent 298-319: a goal (not own goal, not penalty) is counted for the
\* first involved athlete
CountGoal(map, en, playerId, teamId) ==
  LET d == en.detail
  IN  IF d.scoringPlay /\ ~d.ownGoal /\ ~d.penaltyKick /\ en.i = 0
      THEN IF MapHas(map, playerId)
           THEN MapIncrement(map, playerId, "goals")
           ELSE Append(map, [NewPlayerStat(playerId, teamId) EXCEPT !.goals = 1])
      ELSE map

\* storeEvent 322-342: the second involved athlete of a goal gets an assist
CountAssist(map, en, playerId, teamId) ==
  LET d == en.detail
  IN  IF d.scoringPlay /\ ~d.ownGoal /\ ~d.penaltyKick /\ en.i = 1
         /\ Len(d.athletesInvolved) > 1
      THEN IF MapHas(map, playerId)
           THEN MapIncrement(map, playerId, "assists")
           ELSE Append(map, [NewPlayerStat(playerId, teamId) EXCEPT !.assists = 1])
      ELSE map

\* storeEvent 362-369: stats.f++ when the detail has the card flag
CountCard(map, flag, playerId, f) ==
  IF flag THEN MapIncrement(map, playerId, f) ELSE map

\* storeEvent 345-370: cards of every involved athlete
CountCards(map, en, playerId, teamId) ==
  LET d == en.detail
  IN  IF d.yellowCard \/ d.redCard
      THEN CountCard(CountCard(MapSetIfAbsent(map, playerId, teamId),
                               d.yellowCard, playerId, "yellowCards"),
                     d.redCard, playerId, "redCards")
      ELSE map

\* storeEvent 292-370: the map after one involved athlete
CountDetail(map, en, playerId, teamId) ==
  CountCards(CountAssist(CountGoal(map, en, playerId, teamId),
                         en, playerId, teamId),
             en, playerId, teamId)

\* storeEvent 282-370, once the player row is upserted
LinkDetailAthlete(ctx, en, up, isHome, teamId, matchId) ==
  IF up.threw THEN [ctx EXCEPT !.threw = TRUE]
  ELSE [ctx EXCEPT
          !.db = InsertMatchPlayer(up.db,
                   [matchId |-> matchId, playerId |-> up.row.id,
                    teamId |-> teamId, isHome |-> isHome]).db,
          !.map = CountDetail(ctx.map, en, up.row.id, teamId)]

\* storeEvent 275-372: one involved athlete of one detail
ProcessDetailAthlete(ctx, en, competitors, homeId, awayId, matchId) ==
  LET found == IF en.athlete.teamId = Undefined THEN 0
               ELSE FindTeam(competitors, en.athlete.teamId)
  IN
  IF ctx.threw \/ en.athlete.id = "" \/ en.athlete.teamId = Undefined
     \/ en.athlete.teamId = "" \/ found = 0
  THEN ctx
  ELSE
    LET isHome == competitors[found].homeAway = "home"
    IN  LinkDetailAthlete(ctx, en,
          UpsertPlayer(ctx.db, [espnPlayerId |-> en.athlete.id,
                                name |-> en.athlete.displayName,
                                position |-> en.athlete.position]),
          isHome, IF isHome THEN homeId ELSE awayId, matchId)

RECURSIVE ProcessDetails(_, _, _, _, _, _)
ProcessDetails(ctx, entries, competitors, homeId, awayId, matchId) ==
  IF entries = <<>> THEN ctx
  ELSE ProcessDetails(
         ProcessDetailAthlete(ctx, Head(entries), competitors, homeId, awayId, matchId),
         Tail(entries), competitors, homeId, awayId, matchId)

\* storeEvent 379-400: the odds snapshot, when a moneyline block is present
StoreOdds(db, e, matchId) ==
  IF ~e.odds.hasMoneyline THEN db
  ELSE InsertMatchOdds(db,
         [matchId |-> matchId, homeOdds |-> OddsOf(e.odds.home),
          drawOdds |-> OddsOf(e.odds.draw), awayOdds |-> OddsOf(e.odds.away),
          provider |-> e.odds.provider]).db

\* storeEvent 410-450: the team a card detail is counted for (0: none)
CardTeam(d, competitors, homeId, awayId) ==
  LET byDetail ==
        IF d.teamId = Undefined \/ d.teamId = "" THEN 0
        ELSE LET c == FindTeam(competitors, d.teamId)
             IN  IF c = 0 THEN 0
                 ELSE IF competitors[c].homeAway = "home" THEN homeId ELSE awayId
      byAthlete ==
        IF d.hasAthletes /\ Len(d.athletesInvolved) > 0
        THEN LET a == d.athletesInvolved[1]
             IN  IF a.teamId = Undefined \/ a.teamId = "" THEN 0
                 ELSE LET c == FindTeam(competitors, a.teamId)
                      IN  IF c = 0 THEN 0
                          ELSE IF competitors[c].homeAway = "home"
                               THEN homeId ELSE awayId
        ELSE 0
  IN  IF byDetail # 0 THEN byDetail ELSE byAthlete

\* storeEvent 403-452: teamCardsMap, as the number of counted cards of a
\* colour ("yellowCard" / "redCard") for a team id
TeamCards(e, teamId, colour, homeId, awayId) ==
  IF ~e.hasDetails THEN 0
  ELSE Cardinality({k \in 1..Len(e.details) :
         /\ e.details[k][colour]
         /\ CardTeam(e.details[k], e.competitors, homeId, awayId) = teamId})

\* storeEvent 462-489: the last parseable value of the statistic named n
TeamStat(c, n) ==
  LET idx == {i \in 1..Len(c.statistics) :
                c.statistics[i].name = n /\ c.statistics[i].displayValue # NoNum}
  IN  IF idx = {} THEN NoNum
      ELSE c.statistics[CHOOSE i \in idx : \A j \in idx : j <= i].displayValue

\* storeEvent 455-511: one match_statistics insert per competitor
RECURSIVE StoreStatistics(_, _, _, _, _, _)
StoreStatistics(db, e, k, homeId, awayId, matchId) ==
  IF k > Len(e.competitors) THEN db
  ELSE
    LET c == e.competitors[k]
        teamId == IF c.homeAway = "home" THEN homeId ELSE awayId
        yc == TeamCards(e, teamId, "yellowCard", homeId, awayId)
        rc == TeamCards(e, teamId, "redCard", homeId, awayId)
        data == IF c.hasStatistics
                THEN [matchId |-> matchId, teamId |-> teamId,
                      possession |-> TeamStat(c, "possessionPct"),
                      shots |-> TeamStat(c, "totalShots"),
                      shotsOnTarget |-> TeamStat(c, "shotsOnTarget"),
                      corners |-> TeamStat(c, "wonCorners"),
                      fouls |-> TeamStat(c, "foulsCommitted"),
                      yellowCards |-> yc, redCards |-> rc]
                ELSE [matchId |-> matchId, teamId |-> teamId,
                      possession |-> NoNum, shots |-> NoNum,
                      shotsOnTarget |-> NoNum, corners |-> NoNum,
                      fouls |-> NoNum, yellowCards |-> yc, redCards |-> rc]
    IN  StoreStatistics(InsertMatchStatistics(db, data).db, e, k + 1,
                        homeId, awayId, matchId)

\* storeEvent 520-536: one upsertPlayerMatchStats per map entry
RECURSIVE StorePlayerStats(_, _, _)
StorePlayerStats(db, map, matchId) ==
  IF map = <<>> THEN db
  ELSE StorePlayerStats(
         UpsertPlayerMatchStats(db, [matchId |-> matchId] @@ Head(map)).db,
         Tail(map), matchId)

\* storeEvent 515-536 without the delete
ReplacePlayerStatsKeep(db, map, matchId) == StorePlayerStats(db, map, matchId)

\* storeEvent 515-536 as a plain insert per map entry, the way
\* insertMatchStatistics is written
RECURSIVE ReplacePlayerStatsAppend(_, _, _)
ReplacePlayerStatsAppend(db, map, matchId) ==
  IF map = <<>> THEN db
  ELSE ReplacePlayerStatsAppend(
         InsertRow(db, "playerMatchStats", [matchId |-> matchId] @@ Head(map)).db,
         Tail(map), matchId)

\* storeEvent 515-536: replace the match's playerMatchStats rows by the map
ReplacePlayerStats(db, map, matchId) ==
  StorePlayerStats(DeletePlayerMatchStats(db, matchId), map, matchId)

Outcome(db, outcome, matchData, map) ==
  [db |-> db, outcome |-> outcome, match |-> matchData, map |-> map]

NoMatchData == [espnEventId |-> Undefined]

\* storeEvent 131-537, once the match row is upserted
StoreMatchChildren(db, e, matchData, homeId, awayId, matchId) ==
  LET c0 == [db |-> db, map |-> <<>>, threw |-> FALSE]
      c1 == ProcessAthletes(c0, AthleteEntries(e), homeId, awayId, matchId)
      c2 == ProcessDetails(c1, DetailEntries(e), e.competitors,
                           homeId, awayId, matchId)
  IN  IF c2.threw THEN Outcome(c2.db, "threw", matchData, c2.map)
      ELSE LET d3 == StoreOdds(c2.db, e, matchId)
               d4 == StoreStatistics(d3, e, 1, homeId, awayId, matchId)
               d5 == ReplacePlayerStats(d4, c2.map, matchId)
           IN  Outcome(d5, "stored", matchData, c2.map)

\* storeEvent 60-129: the league, the two teams and the match row; outcome
\* "skipped" for an early return, "threw", or "stored" with the ids found.
UpsertEventMatch(db, e) ==
  LET Ended(d, outcome) ==
        [db |-> d, outcome |-> outcome, match |-> NoMatchData,
         homeId |-> 0, awayId |-> 0, matchId |-> 0]
  IN
  IF ~e.hasCompetitions \/ Len(e.competitors) < 2
  THEN Ended(db, "skipped")
  ELSE
    LET lg == UpsertLeague(db, [name |-> ParseLeagueName(e.seasonSlug),
                                slug |-> e.seasonSlug,
                                espnLeagueCode |-> e.seasonType])
        h == FindTagged(e.competitors, "home")
        a == FindTagged(e.competitors, "away")
    IN
    IF h = 0 \/ a = 0 THEN Ended(lg.db, "skipped")
    ELSE
      LET TeamData(c) == [espnTeamId |-> c.team.id, name |-> c.team.displayName,
                          abbreviation |-> c.team.abbreviation,
                          logoUrl |-> c.team.logo]
          ht == UpsertTeam(lg.db, TeamData(e.competitors[h]))
      IN
      IF ht.threw THEN Ended(ht.db, "threw")
      ELSE
        LET at == UpsertTeam(ht.db, TeamData(e.competitors[a]))
        IN
        IF at.threw THEN Ended(at.db, "threw")
        ELSE
          LET matchData ==
                [espnEventId |-> e.id, leagueId |-> lg.row.id,
                 homeTeamId |-> ht.row.id, awayTeamId |-> at.row.id,
                 date |-> e.date, venue |-> VenueOf(e),
                 status |-> MatchStatus(e),
                 homeScore |-> e.competitors[h].score,
                 awayScore |-> e.competitors[a].score]
              mt == UpsertMatch(at.db, matchData)
          IN  [db |-> mt.db, outcome |-> "stored", match |-> matchData,
               homeId |-> ht.row.id, awayId |-> at.row.id,
               matchId |-> mt.row.id]

\* storeEvent, from the match row on
StoreEventFrom(m, e) ==
  IF m.outcome # "stored" THEN Outcome(m.db, m.outcome, NoMatchData, <<>>)
  ELSE StoreMatchChildren(m.db, e, m.match, m.homeId, m.awayId, m.matchId)

\* storeEvent: the database after the call, and how the call ended
\* ("skipped": early return, "stored": ran to the end, "threw").
StoreEvent(db, e) == StoreEventFrom(UpsertEventMatch(db, e), e)

\* ------------------------------------------------------------------------
\* Feed payloads: a pool of events built around one base event, each
\* differing from it in the sections a re-ingestion can change.
\* ------------------------------------------------------------------------
MkTeam(id) ==
  [id |-> id, displayName |-> "Team " \o id, abbreviation |-> id, logo |-> "logo"]

\* a team object without displayName
MkBareTeam(id) ==
  [id |-> id, displayName |-> Undefined, abbreviation |-> Undefined,
   logo |-> Undefined]

MkCompetitor(tag, team, score) ==
  [homeAway |-> tag, team |-> team, score |-> score,
   hasStatistics |-> FALSE, statistics |-> <<>>]

WithStatistics(c, stats) ==
  [c EXCEPT !.hasStatistics = TRUE, !.statistics = stats]

MkAthlete(id, value) ==
  [id |-> id, displayName |-> "Player " \o id, position |-> "F",
   value |-> value, stat |-> NoNum, displayValue |-> NoNum]

MkStat(name, abbreviation, displayValue, athletes) ==
  [name |-> name, abbreviation |-> abbreviation, displayValue |-> displayValue,
   hasAthletes |-> athletes # <<>>, athletes |-> athletes]

MkInvolved(id, teamId) ==
  [id |-> id, displayName |-> "Player " \o id, position |-> Undefined,
   teamId |-> teamId]

MkDetail(kind, teamId, involved) ==
  [scoringPlay |-> kind \in {"goal", "ownGoal", "penalty"},
   ownGoal |-> kind = "ownGoal", penaltyKick |-> kind = "penalty",
   yellowCard |-> kind = "yellow", redCard |-> kind = "red",
   teamId |-> teamId, hasAthletes |-> TRUE, athletesInvolved |-> involved]

NoOddsBlock ==
  [hasMoneyline |-> FALSE, home |-> [kind |-> "absent", n |-> 0],
   draw |-> [kind |-> "absent", n |-> 0], away |-> [kind |-> "absent", n |-> 0],
   provider |-> Undefined]

SomeOdds ==
  [hasMoneyline |-> TRUE, home |-> [kind |-> "num", n |-> 150],
   draw |-> [kind |-> "text", n |-> 0], away |-> [kind |-> "num", n |-> 0 - 200],
   provider |-> "Book"]

BaseCompetitors ==
  <<MkCompetitor("home", MkTeam("t1"), 1), MkCompetitor("away", MkTeam("t2"), 0)>>

BaseEvent(id) ==
  [id |-> id, hasCompetitions |-> TRUE, competitors |-> BaseCompetitors,
   seasonSlug |-> <<"2025", "26", "english", "premier", "league">>,
   seasonType |-> "1", date |-> 10,
   venueFullName |-> "Anfield", venueDisplayName |-> Undefined,
   hasStatus |-> TRUE, completed |-> TRUE, state |-> "post",
   hasDetails |-> FALSE, details |-> <<>>, odds |-> NoOddsBlock]

WithDetails(e, ds) == [e EXCEPT !.hasDetails = TRUE, !.details = ds]

Goal(p, t) == MkDetail("goal", t, <<MkInvolved(p, t)>>)

\* events that storeEvent leaves by an early return
IncompleteEvents(id) ==
  LET b == BaseEvent(id) IN
  { [b EXCEPT !.hasCompetitions = FALSE, !.competitors = <<>>],
    [b EXCEPT !.competitors = <<BaseCompetitors[1]>>],
    [b EXCEPT !.competitors = <<BaseCompetitors[1],
                                MkCompetitor("home", MkTeam("t2"), 0)>>,
              !.seasonType = "2", !.seasonSlug = <<"spanish", "la", "liga">>],
    [b EXCEPT !.competitors = <<MkCompetitor(Undefined, MkTeam("t1"), 1),
                                MkCompetitor(Undefined, MkTeam("t2"), 0)>>] }

\* the match-level fields differ
MatchVariants(id) ==
  LET b == BaseEvent(id) IN
  { b,
    [b EXCEPT !.venueFullName = Undefined],
    [b EXCEPT !.venueFullName = Undefined, !.venueDisplayName = "Emirates"],
    [b EXCEPT !.competitors = <<MkCompetitor("home", MkTeam("t1"), 2),
                                MkCompetitor("away", MkTeam("t2"), NoNum)>>,
              !.completed = FALSE, !.state = "in", !.date = 11],
    [b EXCEPT !.competitors = <<MkCompetitor("away", MkTeam("t3"), 0),
                                MkCompetitor("home", MkTeam("t2"), 3)>>,
              !.hasStatus = FALSE],
    [b EXCEPT !.seasonType = Undefined, !.seasonSlug = <<>>],
    [b EXCEPT !.odds = SomeOdds],
    [b EXCEPT !.competitors = <<BaseCompetitors[1], BaseCompetitors[2],
                                MkCompetitor(Undefined, MkTeam("t3"), 0)>>] }

\* the play-by-play details and the statistics' athlete lists differ
PlayerVariants(id) ==
  LET b == BaseEvent(id)
      sot == MkStat("shotsOnTarget", "ST", 5,
                    <<MkAthlete("p1", 2), MkAthlete("p2", NoNum)>>)
      sv == MkStat("saves", "SV", NoNum, <<MkAthlete("p3", 4)>>)
      shots == MkStat("totalShots", "SH", 9, <<>>)
  IN
  { WithDetails(b, <<Goal("p1", "t1")>>),
    WithDetails(b, <<Goal("p1", "t1"),
                     MkDetail("goal", "t1", <<MkInvolved("p1", "t1"),
                                              MkInvolved("p2", "t1")>>)>>),
    WithDetails(b, <<MkDetail("ownGoal", "t1", <<MkInvolved("p3", "t2")>>),
                     MkDetail("penalty", "t2", <<MkInvolved("p2", "t2")>>)>>),
    WithDetails(b, <<MkDetail("yellow", Undefined, <<MkInvolved("p2", "t2")>>),
                     MkDetail("red", "t1", <<MkInvolved("p1", "t1")>>)>>),
    [b EXCEPT !.competitors =
       <<WithStatistics(BaseCompetitors[1], <<shots, sot>>),
         WithStatistics(BaseCompetitors[2], <<sv>>)>>],
    WithDetails([b EXCEPT !.competitors =
                   <<WithStatistics(BaseCompetitors[1], <<sot>>),
                     BaseCompetitors[2]>>],
                <<Goal("p2", "t1")>>) }

\* payloads on which a storage call rejects the write
MalformedEvents(id) ==
  LET b == BaseEvent(id) IN
  { [b EXCEPT !.competitors = <<BaseCompetitors[1],
                                MkCompetitor("away", MkBareTeam("t4"), 0)>>],
    WithDetails(b, <<Goal("p1", "t1"),
                     MkDetail("goal", "t2",
                       <<[MkInvolved("p4", "t2") EXCEPT !.displayName = Undefined]>>)>>) }

\* a completed match won 2-1 by the home team through one clean goal and
\* one own goal
TwoOneEvent(id) ==
  WithDetails(
    [BaseEvent(id) EXCEPT
       !.competitors = <<MkCompetitor("home", MkTeam("t1"), 2),
                         MkCompetitor("away", MkTeam("t2"), 1)>>],
    <<Goal("p1", "t1"),
      MkDetail("ownGoal", "t1", <<MkInvolved("p3", "t2")>>)>>)

\* the scorers of the details differ: a clean goal and an own goal; two
\* goals of one player, the second detail naming him without his team
GoalVariants(id) ==
  { TwoOneEvent(id),
    WithDetails(BaseEvent(id),
      <<Goal("p1", "t1"),
        MkDetail("goal", "t1", <<MkInvolved("p1", Undefined)>>)>>) }

EventsOf(id) ==
  IncompleteEvents(id) \cup MatchVariants(id) \cup PlayerVariants(id)
    \cup MalformedEvents(id) \cup GoalVariants(id)

\* a second event id, to have more than one match in the store
EventPool ==
  EventsOf("e1") \cup {BaseEvent("e2"), WithDetails(BaseEvent("e2"), <<Goal("p1", "t1")>>)}

\* the longest array one storeEvents call is given
MaxBatch == 2

Batches == UNION {[1..n -> EventPool] : n \in 1..MaxBatch}

\* ------------------------------------------------------------------------
\* Further payloads the feed's types admit (ESPNCompetitor, ESPNStatus,
\* ESPNStatistic, ESPNEventDetail), ingested under IngestSpec
\* ------------------------------------------------------------------------
\* both competitors carry the same team id
SameTeamEvent(id) ==
  [BaseEvent(id) EXCEPT
     !.competitors = <<MkCompetitor("home", MkTeam("t1"), 1),
                       MkCompetitor("away", MkTeam("t1"), 0)>>]

\* p1 is in an athlete list of the home competitor and scores for team t2
CrossSideEvent(id) ==
  WithDetails(
    [BaseEvent(id) EXCEPT
       !.competitors =
         <<WithStatistics(BaseCompetitors[1],
             <<MkStat("shotsOnTarget", "ST", 2, <<MkAthlete("p1", 2)>>)>>),
           BaseCompetitors[2]>>],
    <<Goal("p1", "t2")>>)

\* a third competitor whose athlete list names a home player
ThreeSideEvent(id) ==
  [BaseEvent(id) EXCEPT
     !.competitors =
       <<WithStatistics(BaseCompetitors[1],
           <<MkStat("shotsOnTarget", "ST", 2, <<MkAthlete("p1", 2)>>)>>),
         BaseCompetitors[2],
         WithStatistics(MkCompetitor(Undefined, MkTeam("t3"), 0),
           <<MkStat("shotsOnTarget", "ST", 3, <<MkAthlete("p1", 3)>>)>>)>>]

\* the status section: completed while state is 'in', live, not started,
\* absent
StatusVariants(id) ==
  LET b == BaseEvent(id) IN
  { [b EXCEPT !.completed = TRUE, !.state = "in"],
    [b EXCEPT !.completed = FALSE, !.state = "in"],
    [b EXCEPT !.completed = FALSE, !.state = "pre"],
    [b EXCEPT !.hasStatus = FALSE, !.completed = FALSE, !.state = Undefined] }

\* several statistics feed one field of one player, with values rising or
\* falling along the lists, absent or zero
MergeVariants(id) ==
  LET b == BaseEvent(id)
      sot(p, v) == MkStat("shotsOnTarget", "ST", NoNum, <<MkAthlete(p, v)>>)
      passes == MkStat("totalPasses", "P", NoNum,
                       <<MkAthlete("p1", 3), MkAthlete("p2", 7)>>)
      sv(v) == MkStat("saves", "SV", NoNum, <<MkAthlete("p3", v)>>)
  IN
  { [b EXCEPT !.competitors =
       <<WithStatistics(BaseCompetitors[1],
           <<sot("p1", 2), sot("p1", 5), passes>>),
         WithStatistics(BaseCompetitors[2], <<sv(NoNum), sv(0)>>)>>],
    WithDetails([b EXCEPT !.competitors =
                   <<WithStatistics(BaseCompetitors[1],
                       <<sot("p1", 5), passes, sot("p1", 2)>>),
                     WithStatistics(BaseCompetitors[2], <<sv(4), sv(NoNum)>>)>>],
                <<Goal("p1", "t1")>>) }

\* events of one league under other season type codes and slugs
LeagueVariants(id) ==
  LET b == BaseEvent(id) IN
  { [b EXCEPT !.seasonType = "2"],
    [b EXCEPT !.seasonType = "3",
              !.seasonSlug = <<"english", "premier", "league">>] }

IngestPool ==
  {BaseEvent("e1"), SameTeamEvent("e1"), CrossSideEvent("e1"),
   ThreeSideEvent("e1")}
    \cup StatusVariants("e1") \cup MergeVariants("e1") \cup LeagueVariants("e2")

IngestBatches == UNION {[1..n -> IngestPool] : n \in 1..MaxBatch}

\* ------------------------------------------------------------------------
\* State
\* ------------------------------------------------------------------------
VARIABLES
  \* the eight tables and their AUTOINCREMENT counters
  leagues, teams, players, matches, matchPlayers, matchOdds, matchStatistics,
  playerMatchStats, seq,
  \* storeEvents: its argument, the loop position, the outcome of each
  \* storeEvent call made so far, and how storeEvents ended
  events, idx, calls, storeEventsResult,
  \* the scheduler (see SchedSpec below)
  latestMatchDate, pc, dst, latestRead, startDate, maxDays, dayOffset,
  pastRequested, upcomingRequested, lastOutcome, anyFailed, lastStoredDay,
  pastResult, upcomingResult, startupResult,
  \* direct calls (see UpsertSpec and PureSpec below): one record
  \* [op, arg, result] per call, in call order
  log,
  \* the feed requests of a startup run that have not been answered yet
  \* (see SeqSpec below)
  inFlight,
  \* fetch-past-year.ts: the retryCount of the current
  \* fetchScoreboardFromESPN call and the FetchStats object
  retryCount, stats,
  \* the match days of the fixtures stored as scheduled that no run has
  \* requested again since (see DailySpec below)
  scheduledDays,
  \* the storeEvent calls in progress, one record per caller (see ConcSpec
  \* below)
  procs

dbVars == <<leagues, teams, players, matches, matchPlayers, matchOdds,
            matchStatistics, playerMatchStats, seq>>
batchVars == <<events, idx, calls, storeEventsResult>>
schedVars == <<latestMatchDate, pc, dst, latestRead, startDate, maxDays,
               dayOffset, pastRequested, upcomingRequested, lastOutcome,
               anyFailed, lastStoredDay, pastResult, upcomingResult,
               startupResult>>
\* the calls made directly on the storage functions and the pure helpers
callVars == <<log>>
\* the state of the finer-grained and longer-running specifications
otherVars == <<inFlight, retryCount, stats, scheduledDays, procs>>
vars == <<dbVars, batchVars, schedVars, callVars, otherVars>>

\* the current database as one value
DB ==
  [leagues |-> leagues, teams |-> teams, players |-> players,
   matches |-> matches, matchPlayers |-> matchPlayers, matchOdds |-> matchOdds,
   matchStatistics |-> matchStatistics, playerMatchStats |-> playerMatchStats,
   seq |-> seq]

\* the database after the step
DBNext ==
  [leagues |-> leagues', teams |-> teams', players |-> players',
   matches |-> matches', matchPlayers |-> matchPlayers',
   matchOdds |-> matchOdds', matchStatistics |-> matchStatistics',
   playerMatchStats |-> playerMatchStats', seq |-> seq']

SetDb(db) ==
  /\ leagues' = db.leagues
  /\ teams' = db.teams
  /\ players' = db.players
  /\ matches' = db.matches
  /\ matchPlayers' = db.matchPlayers
  /\ matchOdds' = db.matchOdds
  /\ matchStatistics' = db.matchStatistics
  /\ playerMatchStats' = db.playerMatchStats
  /\ seq' = db.seq

DbInit ==
  /\ leagues = {}
  /\ teams = {}
  /\ players = {}
  /\ matches = {}
  /\ matchPlayers = {}
  /\ matchOdds = {}
  /\ matchStatistics = {}
  /\ playerMatchStats = {}
  /\ seq = [t \in Tables |-> 0]

BatchIdle ==
  /\ events = <<>>
  /\ idx = 1
  /\ calls = <<>>
  /\ storeEventsResult = "none"

\* no direct call has been made
CallIdle == log = <<>>

\* nothing of the other specifications is running
OtherIdle ==
  /\ inFlight = 0
  /\ retryCount = 0
  /\ stats = [successfulDays |-> 0, failedDays |-> 0, totalRequests |-> 0]
  /\ scheduledDays = {}
  /\ procs = <<>>

\* the scheduler has not been started
SchedIdle ==
  /\ latestMatchDate = NoNum
  /\ pc = "idle"
  /\ dst = 0
  /\ latestRead = NoNum
  /\ startDate = 0
  /\ maxDays = 0
  /\ dayOffset = 0
  /\ pastRequested = <<>>
  /\ upcomingRequested = <<>>
  /\ lastOutcome = "none"
  /\ anyFailed = FALSE
  /\ lastStoredDay = NoNum
  /\ pastResult = "none"
  /\ upcomingResult = "none"
  /\ startupResult = "none"

\* ------------------------------------------------------------------------
\* Spec: storeEvents(events) (match-storage.ts 542-551)
\* ------------------------------------------------------------------------
Init ==
  /\ DbInit
  /\ events \in Batches
  /\ idx = 1
  /\ calls = <<>>
  /\ storeEventsResult = "running"
  /\ SchedIdle
  /\ CallIdle
  /\ OtherIdle

\* a storeEvents whose catch throws the error on
CatchStoreEventRethrow(outcome) ==
  IF outcome = "threw" THEN "rethrow" ELSE "continue"

\* storeEvents 546-549: what the loop does with the way a storeEvent call
\* ended; an exception is logged and the loop goes on.
CatchStoreEvent(outcome) == "continue"

\* one iteration of the for loop: storeEvent(events[idx]) under try/catch
StoreEventsIterate ==
  /\ storeEventsResult = "running"
  /\ idx <= Len(events)
  /\ LET r == StoreEvent(DB, events[idx])
     IN  /\ SetDb(r.db)
         /\ calls' = Append(calls, [index |-> idx, outcome |-> r.outcome])
         /\ IF CatchStoreEvent(r.outcome) = "continue"
            THEN idx' = idx + 1 /\ storeEventsResult' = storeEventsResult
            ELSE idx' = idx /\ storeEventsResult' = "threw"
  /\ UNCHANGED <<events, callVars, otherVars, schedVars>>

\* the loop is over: storeEvents resolves
StoreEventsReturn ==
  /\ storeEventsResult = "running"
  /\ idx > Len(events)
  /\ storeEventsResult' = "returned"
  /\ UNCHANGED <<dbVars, events, idx, calls, callVars, otherVars, schedVars>>

Next == StoreEventsIterate \/ StoreEventsReturn

Spec == Init /\ [][Next]_vars

\* ------------------------------------------------------------------------
\* IngestSpec: storeEvents(events) over the payloads of IngestPool
\* ------------------------------------------------------------------------
IngestInit ==
  /\ DbInit
  /\ events \in IngestBatches
  /\ idx = 1
  /\ calls = <<>>
  /\ storeEventsResult = "running"
  /\ SchedIdle
  /\ CallIdle
  /\ OtherIdle

IngestSpec == IngestInit /\ [][Next]_vars

\* ------------------------------------------------------------------------
\* SchedSpec: fetchAllGamesOnStartup (auto-fetch.ts)
\*
\* Dates are day numbers.  The store is seen through getLatestMatchDate
\* only, so it is kept as latestMatchDate, the largest stored match date
\* (NoNum: no match); storeEvents on the events of a day raises it to that
\* day.  The feed's answer to each request is the environment's choice.
\* ------------------------------------------------------------------------
\* the day the run happens
Today == 100
\* gaps (in days) between the latest stored match and today that are tried:
\* -1 .. MaxGap, the longest gap the cap leaves whole and one it cuts
MaxGap == 4

\* auto-fetch.ts 101, 129: the backfill cap
MAX_BACKFILL_DAYS == 90
\* auto-fetch.ts 51: the forward window is dayOffset 0 .. 7
UPCOMING_LAST_OFFSET == 7
\* auto-fetch.ts 121: the divisor 1000 * 60 * 60 * 24 ms, in hours
HOURS_PER_DAY == 24

Gaps == ((0 - 1)..MaxGap)
          \cup {MAX_BACKFILL_DAYS, MAX_BACKFILL_DAYS + 2}

LatestChoices == {NoNum} \cup {Today - g : g \in Gaps}

\* hours by which the span between two local midnights differs from a
\* multiple of 24 when a daylight-saving change lies between them
DstShifts == {0 - 1, 0, 1}

\* what one day's request can come to: the request fails ("fail"), the
\* answer has no events ("empty"), its events are stored ("stored"), or
\* every storeEvent throws and storeEvents swallows it ("storeErr")
FeedOutcomes == {"fail", "empty", "stored", "storeErr"}

\* Math.ceil(a / b) for b > 0
CeilDiv(a, b) == (a + b - 1) \div b

\* fetchPastGames 98-107: the first day to request
StartDateOf(latest) ==
  IF latest = NoNum THEN Today - MAX_BACKFILL_DAYS ELSE latest + 1

\* fetchPastGames 121: today.getTime() - startDate.getTime(), in hours
ElapsedHours(start, shift) ==
  HOURS_PER_DAY * (Today - start) + (IF start < Today THEN shift ELSE 0)

\* a day count that takes in both the first day and today
DaysDiffInclusive(start, shift) ==
  CeilDiv(ElapsedHours(start, shift), HOURS_PER_DAY) + 1

\* fetchPastGames 121
DaysDiff(start, shift) == CeilDiv(ElapsedHours(start, shift), HOURS_PER_DAY)

\* a forward loop that stops one day short
UpcomingInWindowExclusive(offset) == offset < UPCOMING_LAST_OFFSET

\* fetchUpcomingGames 51: the loop condition dayOffset <= 7
UpcomingInWindow(offset) == offset <= UPCOMING_LAST_OFFSET

\* a day loop without the inner try/catch
CatchDayErrorRethrow == "rethrow"

\* fetchPastGames 154-157, fetchUpcomingGames 68-71: the catch around one
\* day's fetch and store logs the error and the loop goes on
CatchDayError == "continue"

\* a startup run whose catch throws the error on
CatchStartupErrorRethrow == "rethrow"

\* fetchAllGamesOnStartup 183-186: the catch around both runs logs the
\* error and does not throw
CatchStartupError == "swallow"

SchedInit ==
  /\ DbInit
  /\ BatchIdle
  /\ CallIdle
  /\ OtherIdle
  /\ latestMatchDate \in LatestChoices
  /\ dst \in DstShifts
  /\ pc = "idle"
  /\ latestRead = NoNum
  /\ startDate = 0
  /\ maxDays = 0
  /\ dayOffset = 0
  /\ pastRequested = <<>>
  /\ upcomingRequested = <<>>
  /\ lastOutcome = "none"
  /\ anyFailed = FALSE
  /\ lastStoredDay = NoNum
  /\ pastResult = "none"
  /\ upcomingResult = "none"
  /\ startupResult = "running"

\* auto-fetch.ts 58-71 / 144-157: request one day and store its events
RequestDay(day, outcome) ==
  /\ lastOutcome' = outcome
  /\ anyFailed' = (anyFailed \/ outcome = "fail")
  /\ lastStoredDay' = IF outcome \in {"stored", "storeErr"} THEN day
                      ELSE NoNum
  /\ latestMatchDate' = IF outcome = "stored" THEN Max(latestMatchDate, day)
                        ELSE latestMatchDate

\* fetchPastGames 92-129: the high-water mark is read and the loop set up,
\* or the run returns at once
FetchPastBegin ==
  /\ pc = "idle"
  /\ startupResult = "running"
  /\ LET start == StartDateOf(latestMatchDate)
         daysDiff == DaysDiff(start, dst)
     IN  /\ latestRead' = latestMatchDate
         /\ startDate' = start
         /\ IF (latestMatchDate # NoNum /\ start > Today) \/ daysDiff <= 0
            THEN /\ pc' = "pastEnd"
                 /\ pastResult' = "returned"
                 /\ maxDays' = maxDays
            ELSE /\ pc' = "pastLoop"
                 /\ pastResult' = pastResult
                 /\ maxDays' = Min(daysDiff, MAX_BACKFILL_DAYS)
  /\ dayOffset' = 0
  /\ UNCHANGED <<dbVars, batchVars, callVars, otherVars, latestMatchDate, dst, pastRequested,
                 upcomingRequested, lastOutcome, anyFailed, lastStoredDay,
                 upcomingResult, startupResult>>

\* fetchPastGames 92, 164-167: getLatestMatchDate rejects; the error is
\* logged and thrown on
FetchPastQueryFails ==
  /\ pc = "idle"
  /\ startupResult = "running"
  /\ pc' = "pastEnd"
  /\ pastResult' = "threw"
  /\ UNCHANGED <<dbVars, batchVars, callVars, otherVars, latestMatchDate, dst, latestRead,
                 startDate, maxDays, dayOffset, pastRequested,
                 upcomingRequested, lastOutcome, anyFailed, lastStoredDay,
                 upcomingResult, startupResult>>

\* fetchPastGames 132-161: one iteration of the day loop
FetchPastDay ==
  /\ pc = "pastLoop"
  /\ dayOffset < maxDays
  /\ startDate + dayOffset <= Today
  /\ \E outcome \in FeedOutcomes :
       /\ RequestDay(startDate + dayOffset, outcome)
       /\ pastRequested' = Append(pastRequested, startDate + dayOffset)
       /\ IF outcome = "fail" /\ CatchDayError # "continue"
          THEN pc' = "pastEnd" /\ pastResult' = "threw" /\ dayOffset' = dayOffset
          ELSE pc' = pc /\ pastResult' = pastResult /\ dayOffset' = dayOffset + 1
  /\ UNCHANGED <<dbVars, batchVars, callVars, otherVars, dst, latestRead, startDate, maxDays,
                 upcomingRequested, upcomingResult, startupResult>>

\* fetchPastGames 132, 137-139, 163: the loop is over
FetchPastEnd ==
  /\ pc = "pastLoop"
  /\ (dayOffset >= maxDays \/ startDate + dayOffset > Today)
  /\ pc' = "pastEnd"
  /\ pastResult' = "returned"
  /\ UNCHANGED <<dbVars, batchVars, callVars, otherVars, latestMatchDate, dst, latestRead,
                 startDate, maxDays, dayOffset, pastRequested,
                 upcomingRequested, lastOutcome, anyFailed, lastStoredDay,
                 upcomingResult, startupResult>>

\* fetchAllGamesOnStartup 179-186: fetchPastGames has settled; go on to
\* fetchUpcomingGames, or catch what it threw
StartupAfterPast ==
  /\ pc = "pastEnd"
  /\ IF pastResult = "threw"
     THEN /\ pc' = "done"
          /\ startupResult' = IF CatchStartupError = "swallow"
                              THEN "returned" ELSE "threw"
     ELSE /\ pc' = "upcomingLoop"
          /\ startupResult' = startupResult
  /\ dayOffset' = 0
  /\ UNCHANGED <<dbVars, batchVars, callVars, otherVars, latestMatchDate, dst, latestRead,
                 startDate, maxDays, pastRequested, upcomingRequested,
                 lastOutcome, anyFailed, lastStoredDay, pastResult,
                 upcomingResult>>

\* fetchUpcomingGames 51-77: one iteration of the day loop
FetchUpcomingDay ==
  /\ pc = "upcomingLoop"
  /\ UpcomingInWindow(dayOffset)
  /\ \E outcome \in FeedOutcomes :
       /\ RequestDay(Today + dayOffset, outcome)
       /\ upcomingRequested' = Append(upcomingRequested, Today + dayOffset)
       /\ IF outcome = "fail" /\ CatchDayError # "continue"
          THEN /\ pc' = "upcomingEnd"
               /\ upcomingResult' = "threw"
               /\ dayOffset' = dayOffset
          ELSE /\ pc' = pc
               /\ upcomingResult' = upcomingResult
               /\ dayOffset' = dayOffset + 1
  /\ UNCHANGED <<dbVars, batchVars, callVars, otherVars, dst, latestRead, startDate, maxDays,
                 pastRequested, pastResult, startupResult>>

\* fetchUpcomingGames 51, 79: the loop is over
FetchUpcomingEnd ==
  /\ pc = "upcomingLoop"
  /\ ~UpcomingInWindow(dayOffset)
  /\ pc' = "upcomingEnd"
  /\ upcomingResult' = "returned"
  /\ UNCHANGED <<dbVars, batchVars, callVars, otherVars, latestMatchDate, dst, latestRead,
                 startDate, maxDays, dayOffset, pastRequested,
                 upcomingRequested, lastOutcome, anyFailed, lastStoredDay,
                 pastResult, startupResult>>

\* fetchAllGamesOnStartup 180-186: fetchUpcomingGames has settled
StartupAfterUpcoming ==
  /\ pc = "upcomingEnd"
  /\ pc' = "done"
  /\ startupResult' = IF upcomingResult = "threw" /\ CatchStartupError # "swallow"
                      THEN "threw" ELSE "returned"
  /\ UNCHANGED <<dbVars, batchVars, callVars, otherVars, latestMatchDate, dst, latestRead,
                 startDate, maxDays, dayOffset, pastRequested,
                 upcomingRequested, lastOutcome, anyFailed, lastStoredDay,
                 pastResult, upcomingResult>>

SchedNext ==
  \/ FetchPastBegin
  \/ FetchPastQueryFails
  \/ FetchPastDay
  \/ FetchPastEnd
  \/ StartupAfterPast
  \/ FetchUpcomingDay
  \/ FetchUpcomingEnd
  \/ StartupAfterUpcoming

SchedSpec == SchedInit /\ [][SchedNext]_vars

\* ------------------------------------------------------------------------
\* SeqSpec: one fetchAllGamesOnStartup run with a step per awaited call: the
\* feed request is sent, it settles, storeEvents makes one storeEvent call
\* per event, storeEvents returns.  The store is seen as in SchedSpec; an
\* event is its position in the day's answer.
\* ------------------------------------------------------------------------
\* the most events one day's answer holds
MaxDayEvents == 2

\* what a feed request settles with: a failure (NoNum) or the number of
\* events of the day
DayAnswers == {NoNum} \cup (0..MaxDayEvents)

\* a day loop that calls storeEvents and goes on without waiting for it
AwaitStoreEventsDetached == "detached"

\* fetchPastGames 150, fetchUpcomingGames 64: await storeEvents(...)
AwaitStoreEvents == "await"

SeqInit ==
  /\ DbInit
  /\ BatchIdle
  /\ CallIdle
  /\ OtherIdle
  /\ latestMatchDate \in {Today - g : g \in (0 - 1)..MaxGap}
  /\ dst \in DstShifts
  /\ pc = "idle"
  /\ latestRead = NoNum
  /\ startDate = 0
  /\ maxDays = 0
  /\ dayOffset = 0
  /\ pastRequested = <<>>
  /\ upcomingRequested = <<>>
  /\ lastOutcome = "none"
  /\ anyFailed = FALSE
  /\ lastStoredDay = NoNum
  /\ pastResult = "none"
  /\ upcomingResult = "none"
  /\ startupResult = "running"

\* fetchPastGames 132-145, fetchUpcomingGames 51-59: the loop is entered for
\* the next day and fetchScoreboardFromESPN sends the request
SeqRequest ==
  /\ \/ /\ pc = "pastLoop"
        /\ dayOffset < maxDays
        /\ startDate + dayOffset <= Today
        /\ pastRequested' = Append(pastRequested, startDate + dayOffset)
        /\ upcomingRequested' = upcomingRequested
        /\ pc' = "pastAwait"
     \/ /\ pc = "upcomingLoop"
        /\ UpcomingInWindow(dayOffset)
        /\ upcomingRequested' = Append(upcomingRequested, Today + dayOffset)
        /\ pastRequested' = pastRequested
        /\ pc' = "upcomingAwait"
  /\ inFlight' = inFlight + 1
  /\ UNCHANGED <<dbVars, batchVars, callVars, latestMatchDate, dst, latestRead,
                 startDate, maxDays, dayOffset, lastOutcome, anyFailed,
                 lastStoredDay, pastResult, upcomingResult, startupResult,
                 retryCount, stats, scheduledDays, procs>>

\* the day of the request the loop is waiting for
SeqDay == IF pc \in {"pastAwait", "pastStore"} THEN startDate + dayOffset
          ELSE Today + dayOffset

\* the loop the awaiting function is in
SeqLoop == IF pc \in {"pastAwait", "pastStore"} THEN "pastLoop"
           ELSE "upcomingLoop"

\* fetchPastGames 145-157, fetchUpcomingGames 59-71: the request settles.  A
\* failure or an answer without events ends the day; otherwise storeEvents
\* is called on the events.
SeqAnswer ==
  /\ pc \in {"pastAwait", "upcomingAwait"}
  /\ inFlight' = inFlight - 1
  /\ \E answer \in DayAnswers :
       IF answer \in {NoNum, 0}
       THEN /\ RequestDay(SeqDay, IF answer = 0 THEN "empty" ELSE "fail")
            /\ pc' = SeqLoop
            /\ dayOffset' = dayOffset + 1
            /\ UNCHANGED batchVars
       ELSE /\ events' = [i \in 1..answer |-> i]
            /\ idx' = 1
            /\ calls' = <<>>
            /\ storeEventsResult' = "running"
            /\ lastStoredDay' = SeqDay
            /\ IF AwaitStoreEvents = "await"
               THEN /\ pc' = IF pc = "pastAwait" THEN "pastStore"
                             ELSE "upcomingStore"
                    /\ dayOffset' = dayOffset
               ELSE /\ pc' = SeqLoop
                    /\ dayOffset' = dayOffset + 1
            /\ UNCHANGED <<lastOutcome, anyFailed, latestMatchDate>>
  /\ UNCHANGED <<dbVars, callVars, dst, latestRead, startDate, maxDays,
                 pastRequested, upcomingRequested, pastResult, upcomingResult,
                 startupResult, retryCount, stats, scheduledDays, procs>>

\* storeEvents 543-550: one iteration, storeEvent stores the event or throws
\* and the error is caught
SeqStoreEvent ==
  /\ storeEventsResult = "running"
  /\ idx <= Len(events)
  /\ \E outcome \in {"stored", "threw"} :
       calls' = Append(calls, [index |-> idx, outcome |-> outcome])
  /\ idx' = idx + 1
  /\ UNCHANGED <<dbVars, events, storeEventsResult, callVars, schedVars,
                 otherVars>>

\* storeEvents returns and the loop that awaited it goes on to the next day
SeqStored ==
  /\ storeEventsResult = "running"
  /\ idx > Len(events)
  /\ storeEventsResult' = "returned"
  /\ RequestDay(lastStoredDay,
                IF \E i \in 1..Len(calls) : calls[i].outcome = "stored"
                THEN "stored" ELSE "storeErr")
  /\ IF pc \in {"pastStore", "upcomingStore"}
     THEN pc' = SeqLoop /\ dayOffset' = dayOffset + 1
     ELSE pc' = pc /\ dayOffset' = dayOffset
  /\ UNCHANGED <<dbVars, events, idx, calls, callVars, dst, latestRead,
                 startDate, maxDays, pastRequested, upcomingRequested,
                 pastResult, upcomingResult, startupResult, otherVars>>

SeqNext ==
  \/ FetchPastBegin
  \/ FetchPastQueryFails
  \/ SeqRequest
  \/ SeqAnswer
  \/ SeqStoreEvent
  \/ SeqStored
  \/ FetchPastEnd
  \/ StartupAfterPast
  \/ FetchUpcomingEnd
  \/ StartupAfterUpcoming

SeqSpec == SeqInit /\ [][SeqNext]_vars

\* ------------------------------------------------------------------------
\* ScriptSpec: fetchPastYearGames (scripts/fetch-past-year.ts), a step per
\* request and per sleep.  log holds the requests and sleeps of the current
\* fetchGamesForDate call; storeEvents is seen as a call that returns.
\* ------------------------------------------------------------------------
\* the days of the range (daysDiff; a year in the script)
MaxScriptDays == 2

\* fetch-past-year.ts 8-9
MAX_RETRIES == 3
RETRY_DELAY_BASE_MS == 1000

\* what one fetch comes to: an HTTP status, the abort of the 30 s timeout,
\* or another rejection of fetch (status 0)
Responses ==
  {[kind |-> "http", status |-> st] : st \in {200, 404, 429, 500, 503}}
    \cup {[kind |-> "abort", status |-> 0], [kind |-> "network", status |-> 0]}

\* fetchScoreboardFromESPN 64: response.ok
ResponseOk(r) == r.kind = "http" /\ r.status \in 200..299

\* a retry test that allows one more attempt
CanRetryOnceMore(r, count) ==
  /\ \/ r.kind = "http" /\ (r.status = 429 \/ r.status >= 500)
     \/ r.kind = "abort"
  /\ count <= MAX_RETRIES

\* fetchScoreboardFromESPN 66-67, 83-84: a 429, a 5xx or an abort is tried
\* again while retryCount < MAX_RETRIES
CanRetry(r, count) ==
  /\ \/ r.kind = "http" /\ ~ResponseOk(r) /\ (r.status = 429 \/ r.status >= 500)
     \/ r.kind = "abort"
  /\ count < MAX_RETRIES

\* fetchScoreboardFromESPN 68, 85: the exponential backoff
RetryDelay(count) == RETRY_DELAY_BASE_MS * (2 ^ count)

\* what the script leaves alone
scriptFrame ==
  <<dbVars, batchVars, latestMatchDate, dst, latestRead, startDate, maxDays,
    pastRequested, upcomingRequested, lastOutcome, anyFailed, lastStoredDay,
    pastResult, upcomingResult, startupResult, inFlight, scheduledDays, procs>>

ScriptInit ==
  /\ DbInit
  /\ BatchIdle
  /\ SchedIdle
  /\ CallIdle
  /\ OtherIdle

\* fetchPastYearGames 131-183: the statistics are zeroed, the loop is
\* entered and fetchGamesForDate calls fetchScoreboardFromESPN(dateStr)
ScriptBegin ==
  /\ pc = "idle"
  /\ pc' = "fetch"
  /\ dayOffset' = 0
  /\ retryCount' = 0
  /\ stats' = [successfulDays |-> 0, failedDays |-> 0, totalRequests |-> 0]
  /\ log' = <<>>
  /\ UNCHANGED scriptFrame

\* fetchScoreboardFromESPN 46-96 and fetchGamesForDate 106-125: one request
\* settles.  It is tried again after a sleep, or its data go to storeEvents
\* and the day is successful, or the error reaches fetchGamesForDate's catch
\* and the day is failed.
ScriptFetch ==
  /\ pc = "fetch"
  /\ \E r \in Responses :
       /\ log' = Append(log, [op |-> "fetch", arg |-> dayOffset, result |-> r])
       /\ IF ResponseOk(r)
          THEN /\ pc' = "loop"
               /\ stats' = [stats EXCEPT
                              !.totalRequests = @ + 1, !.successfulDays = @ + 1]
          ELSE IF CanRetry(r, retryCount)
          THEN /\ pc' = "sleep"
               /\ stats' = stats
          ELSE /\ pc' = "loop"
               /\ stats' = [stats EXCEPT !.failedDays = @ + 1]
  /\ UNCHANGED <<dayOffset, retryCount, scriptFrame>>

\* fetchScoreboardFromESPN 72-73, 89-90: the backoff sleep, then the call
\* of itself with retryCount + 1
ScriptRetry ==
  /\ pc = "sleep"
  /\ log' = Append(log, [op |-> "sleep", arg |-> RetryDelay(retryCount),
                         result |-> retryCount + 1])
  /\ retryCount' = retryCount + 1
  /\ pc' = "fetch"
  /\ UNCHANGED <<dayOffset, stats, scriptFrame>>

\* fetchPastYearGames 160, 183-188: the rate-limit sleep and the next day,
\* with a fresh fetchScoreboardFromESPN call
ScriptNextDay ==
  /\ pc = "loop"
  /\ dayOffset < MaxScriptDays - 1
  /\ dayOffset' = dayOffset + 1
  /\ retryCount' = 0
  /\ log' = <<>>
  /\ pc' = "fetch"
  /\ UNCHANGED <<stats, scriptFrame>>

\* fetchPastYearGames 160, 198-213: the loop is over
ScriptEnd ==
  /\ pc = "loop"
  /\ dayOffset >= MaxScriptDays - 1
  /\ pc' = "done"
  /\ UNCHANGED <<dayOffset, retryCount, stats, log, scriptFrame>>

ScriptNext ==
  \/ ScriptBegin
  \/ ScriptFetch
  \/ ScriptRetry
  \/ ScriptNextDay
  \/ ScriptEnd

ScriptSpec == ScriptInit /\ [][ScriptNext]_vars

\* ------------------------------------------------------------------------
\* DailySpec: fetchAllGamesOnStartup at one server start after another, no
\* request failing.  A run is one step.  Dates are day numbers in which the
\* day of the coming run is Today: when a day passes, every stored date is
\* one day further back.  Of the fixtures the forward fetch stores as
\* scheduled one is followed at a time (scheduledDays holds its match day
\* until a later run requests that day on or after it).
\* ------------------------------------------------------------------------
\* the most days between two server starts
MaxRunGap == 2

\* fetchPastGames 92-139: the days the backfill requests, in order
PastDays(latest, shift) ==
  IF \/ (latest # NoNum /\ StartDateOf(latest) > Today)
     \/ DaysDiff(StartDateOf(latest), shift) <= 0
  THEN <<>>
  ELSE [i \in 1..Min(Min(DaysDiff(StartDateOf(latest), shift), MAX_BACKFILL_DAYS),
                     Today - StartDateOf(latest) + 1)
          |-> StartDateOf(latest) + i - 1]

\* fetchUpcomingGames 51-56: the days the forward fetch requests, in order
UpcomingDays ==
  [i \in 1..Cardinality({k \in 0..(UPCOMING_LAST_OFFSET + 1) : UpcomingInWindow(k)})
     |-> Today + i - 1]

DaysOf(days) == {days[i] : i \in 1..Len(days)}

DailyInit ==
  /\ DbInit
  /\ BatchIdle
  /\ CallIdle
  /\ OtherIdle
  /\ latestMatchDate \in {NoNum} \cup {Today - g : g \in 0..MaxGap}
  /\ dst \in DstShifts
  /\ pc = "idle"
  /\ latestRead = NoNum
  /\ startDate = 0
  /\ maxDays = 0
  /\ dayOffset = 0
  /\ pastRequested = <<>>
  /\ upcomingRequested = <<>>
  /\ lastOutcome = "none"
  /\ anyFailed = FALSE
  /\ lastStoredDay = NoNum
  /\ pastResult = "none"
  /\ upcomingResult = "none"
  /\ startupResult = "none"

\* fetchAllGamesOnStartup 174-187 with every request answered: the backfill
\* and the forward fetch request their days and storeEvents stores what the
\* feed has.  top is the latest requested day with events (NoNum: none);
\* followed is the match day of a fixture the forward fetch stores as
\* scheduled.
DailyRun ==
  /\ pc = "idle"
  /\ pastRequested' = PastDays(latestMatchDate, dst)
  /\ upcomingRequested' = UpcomingDays
  /\ \E top \in {NoNum} \cup DaysOf(PastDays(latestMatchDate, dst))
                  \cup DaysOf(UpcomingDays) :
       /\ latestMatchDate' = Max(latestMatchDate, top)
       /\ \E followed \in {{}} \cup {{d} : d \in {x \in DaysOf(UpcomingDays) : x <= top}} :
            LET waiting == {d \in scheduledDays :
                              ~(d <= Today /\ d \in DaysOf(PastDays(latestMatchDate, dst))
                                                     \cup DaysOf(UpcomingDays))}
            IN  scheduledDays' = IF waiting # {} THEN waiting ELSE followed
  /\ latestRead' = latestMatchDate
  /\ pc' = "done"
  /\ UNCHANGED <<dbVars, batchVars, callVars, dst, startDate, maxDays, dayOffset,
                 lastOutcome, anyFailed, lastStoredDay, pastResult,
                 upcomingResult, startupResult, inFlight, retryCount, stats,
                 procs>>

\* instrumentation.ts 1-11: the server is started again dayOffset days after
\* the run before; here one more day passes
DayPasses ==
  /\ \/ pc = "done"
     \/ pc = "idle" /\ dayOffset \in 1..(MaxRunGap - 1)
  /\ latestMatchDate = NoNum \/ Today - latestMatchDate <= MaxGap
  /\ \A d \in scheduledDays : Today - d <= MaxGap
  /\ pc' = "idle"
  /\ dayOffset' = IF pc = "done" THEN 1 ELSE dayOffset + 1
  /\ latestMatchDate' = IF latestMatchDate = NoNum THEN NoNum
                        ELSE latestMatchDate - 1
  /\ scheduledDays' = {d - 1 : d \in scheduledDays}
  /\ pastRequested' = [i \in 1..Len(pastRequested) |-> pastRequested[i] - 1]
  /\ upcomingRequested' =
       [i \in 1..Len(upcomingRequested) |-> upcomingRequested[i] - 1]
  /\ UNCHANGED <<dbVars, batchVars, callVars, dst, latestRead, startDate,
                 maxDays, lastOutcome, anyFailed, lastStoredDay, pastResult,
                 upcomingResult, startupResult, inFlight, retryCount, stats,
                 procs>>

DailyNext == DailyRun \/ DayPasses

DailySpec == DailyInit /\ [][DailyNext]_vars


\* ------------------------------------------------------------------------
\* ConcSpec: storeEvents calls for one event running side by side on a store
\* that holds an earlier ingestion of the match.  A caller advances by one
\* awaited storage call of storeEvent at a time (the check and the write of
\* insertMatchPlayer and of upsertPlayerMatchStats are separate awaits), and
\* an awaited storage call may reject.
\* ------------------------------------------------------------------------
Callers == {1, 2}

FeedEvent(home, away) ==
  [BaseEvent("e1") EXCEPT !.competitors =
     <<WithStatistics(BaseCompetitors[1], home),
       WithStatistics(BaseCompetitors[2], away)>>]

\* the payload of the earlier ingestion: one home player with shots on target
PriorEvent ==
  FeedEvent(<<MkStat("shotsOnTarget", "ST", NoNum, <<MkAthlete("p1", 2)>>)>>,
            <<>>)

\* the payloads of the re-ingestion: one more player on the away side
ConcEvents ==
  {FeedEvent(<<MkStat("shotsOnTarget", "ST", NoNum, <<MkAthlete("p1", v)>>)>>,
             <<MkStat("saves", "SV", NoNum, <<MkAthlete("p3", 1)>>)>>)
     : v \in {2, 5}}

\* the store after the earlier storeEvents call has returned
PriorDb == StoreEvent(EmptyDb, PriorEvent).db

ConcInit ==
  /\ leagues = PriorDb.leagues
  /\ teams = PriorDb.teams
  /\ players = PriorDb.players
  /\ matches = PriorDb.matches
  /\ matchPlayers = PriorDb.matchPlayers
  /\ matchOdds = PriorDb.matchOdds
  /\ matchStatistics = PriorDb.matchStatistics
  /\ playerMatchStats = PriorDb.playerMatchStats
  /\ seq = PriorDb.seq
  /\ BatchIdle
  /\ SchedIdle
  /\ CallIdle
  /\ inFlight = 0
  /\ retryCount = 0
  /\ stats = [successfulDays |-> 0, failedDays |-> 0, totalRequests |-> 0]
  /\ scheduledDays = {}
  /\ \E e \in ConcEvents :
       procs = [p \in Callers |->
                  [pc |-> "begin", event |-> e, matchId |-> 0, homeId |-> 0,
                   awayId |-> 0, map |-> <<>>, k |-> 1, playerId |-> 0,
                   existing |-> {}]]

concFrame == <<batchVars, schedVars, callVars, inFlight, retryCount, stats,
               scheduledDays>>

\* .limit(1): the first row of the result, if any
LimitOne(rows) == IF rows = {} THEN {} ELSE {CHOOSE r \in rows : TRUE}

\* where a caller goes once athlete k - 1 is handled
AfterAthlete(e, k) ==
  IF k > Len(AthleteEntries(e)) THEN "details" ELSE "athletes"

\* storeEvent 60-129: league, teams and match row
ConcUpsertMatch(p) ==
  /\ procs[p].pc = "begin"
  /\ LET m == UpsertEventMatch(DB, procs[p].event)
     IN  /\ SetDb(m.db)
         /\ procs' = [procs EXCEPT ![p] =
              [@ EXCEPT !.pc = IF m.outcome = "stored"
                               THEN AfterAthlete(procs[p].event, 1)
                               ELSE m.outcome,
                        !.matchId = m.matchId, !.homeId = m.homeId,
                        !.awayId = m.awayId]]
  /\ UNCHANGED concFrame

\* storeEvent 144-163 and insertMatchPlayer 107-119: the player row is
\* upserted and the link row is looked up
ConcAthleteSelect(p) ==
  /\ procs[p].pc = "athletes"
  /\ LET c == procs[p]
         en == AthleteEntries(c.event)[c.k]
         up == UpsertPlayer(DB, [espnPlayerId |-> en.athlete.id,
                                 name |-> en.athlete.displayName,
                                 position |-> en.athlete.position])
         teamId == IF en.isHome THEN c.homeId ELSE c.awayId
     IN  IF en.athlete.id = ""
         THEN /\ procs' = [procs EXCEPT ![p] =
                   [@ EXCEPT !.k = c.k + 1,
                             !.pc = AfterAthlete(c.event, c.k + 1)]]
              /\ UNCHANGED dbVars
         ELSE /\ SetDb(up.db)
              /\ procs' = [procs EXCEPT ![p] =
                   IF up.threw THEN [@ EXCEPT !.pc = "threw"]
                   ELSE [@ EXCEPT
                           !.pc = "link", !.playerId = up.row.id,
                           !.existing = LimitOne(
                              {r \in up.db.matchPlayers :
                                  /\ r.matchId = c.matchId
                                  /\ r.playerId = up.row.id
                                  /\ r.teamId = teamId})]]
  /\ UNCHANGED concFrame

\* insertMatchPlayer 121-134 and storeEvent 165-257: the link row is
\* inserted when the lookup found none, and the statistic is merged
ConcAthleteLink(p) ==
  /\ procs[p].pc = "link"
  /\ LET c == procs[p]
         en == AthleteEntries(c.event)[c.k]
         teamId == IF en.isHome THEN c.homeId ELSE c.awayId
     IN  /\ IF c.existing # {} THEN UNCHANGED dbVars
            ELSE SetDb(InsertRow(DB, "matchPlayers",
                         [matchId |-> c.matchId, playerId |-> c.playerId,
                          teamId |-> teamId, isHome |-> en.isHome]).db)
         /\ procs' = [procs EXCEPT ![p] =
              [@ EXCEPT
                 !.map = RaiseStat(MapSetIfAbsent(c.map, c.playerId, teamId),
                           c.playerId,
                           ClassifyAthleteStat(en.name, en.abbreviation),
                           ExtractPlayerValue(en.athlete)),
                 !.existing = {},
                 !.k = c.k + 1,
                 !.pc = AfterAthlete(c.event, c.k + 1)]]
  /\ UNCHANGED concFrame

\* storeEvent 262-511: key events, odds and team statistics
ConcDetails(p) ==
  /\ procs[p].pc = "details"
  /\ LET c == procs[p]
         c2 == ProcessDetails([db |-> DB, map |-> c.map, threw |-> FALSE],
                 DetailEntries(c.event), c.event.competitors,
                 c.homeId, c.awayId, c.matchId)
     IN  IF c2.threw
         THEN /\ SetDb(c2.db)
              /\ procs' = [procs EXCEPT ![p] = [@ EXCEPT !.pc = "threw"]]
         ELSE /\ SetDb(StoreStatistics(StoreOdds(c2.db, c.event, c.matchId),
                         c.event, 1, c.homeId, c.awayId, c.matchId))
              /\ procs' = [procs EXCEPT ![p] =
                   [@ EXCEPT !.pc = "delete", !.map = c2.map]]
  /\ UNCHANGED concFrame

\* storeEvent 515-517: the match's playerMatchStats rows are deleted
ConcDelete(p) ==
  /\ procs[p].pc = "delete"
  /\ SetDb(DeletePlayerMatchStats(DB, procs[p].matchId))
  /\ procs' = [procs EXCEPT ![p] =
       [@ EXCEPT !.k = 1,
                 !.pc = IF procs[p].map = <<>> THEN "done" ELSE "stats"]]
  /\ UNCHANGED concFrame

\* upsertPlayerMatchStats 203-213: the row of the map entry is looked up
ConcStatsSelect(p) ==
  /\ procs[p].pc = "stats"
  /\ LET c == procs[p] IN
     procs' = [procs EXCEPT ![p] =
       [@ EXCEPT !.pc = "write",
                 !.existing = LimitOne(
                    {r \in playerMatchStats :
                        /\ r.matchId = c.matchId
                        /\ r.playerId = c.map[c.k].playerId})]]
  /\ UNCHANGED <<dbVars, concFrame>>

\* upsertPlayerMatchStats 215-263 after its lookup returned `existing`: the
\* rows of the key are updated, or a row is inserted when none was found
UpsertPlayerMatchStatsWrite(db, existing, data) ==
  IF existing # {}
  THEN LET old == CHOOSE r \in existing : TRUE
           Upd(r) == [f \in DOMAIN r |->
                        IF f \in StatFields
                        THEN IF data[f] # NoNum THEN data[f] ELSE old[f]
                        ELSE r[f]]
           Hit(r) == r.matchId = data.matchId /\ r.playerId = data.playerId
       IN  [db EXCEPT !.playerMatchStats =
              {IF Hit(r) THEN Upd(r) ELSE r : r \in @}]
  ELSE InsertRow(db, "playerMatchStats",
         [f \in DOMAIN data |->
            IF f \in StatFields /\ data[f] = NoNum THEN 0 ELSE data[f]]).db

\* upsertPlayerMatchStats 215-263 and storeEvent 520-536: the write of the
\* map entry, then the next entry
ConcStatsWrite(p) ==
  /\ procs[p].pc = "write"
  /\ LET c == procs[p]
     IN  /\ SetDb(UpsertPlayerMatchStatsWrite(DB, c.existing,
                    [matchId |-> c.matchId] @@ c.map[c.k]))
         /\ procs' = [procs EXCEPT ![p] =
              [@ EXCEPT !.existing = {}, !.k = c.k + 1,
                        !.pc = IF c.k + 1 > Len(c.map) THEN "done"
                               ELSE "stats"]]
  /\ UNCHANGED concFrame

\* the awaited storage call rejects: storeEvent throws, and storeEvents
\* 546-549 catches the error and goes on
ConcFault(p) ==
  /\ procs[p].pc \in {"begin", "athletes", "link", "details", "delete",
                      "stats", "write"}
  /\ procs' = [procs EXCEPT ![p] = [@ EXCEPT !.pc = "threw"]]
  /\ UNCHANGED <<dbVars, concFrame>>

ConcNext ==
  \E p \in Callers :
    \/ ConcUpsertMatch(p)
    \/ ConcAthleteSelect(p)
    \/ ConcAthleteLink(p)
    \/ ConcDetails(p)
    \/ ConcDelete(p)
    \/ ConcStatsSelect(p)
    \/ ConcStatsWrite(p)
    \/ ConcFault(p)

ConcSpec == ConcInit /\ [][ConcNext]_vars

\* ------------------------------------------------------------------------
\* UpsertSpec: any sequence of upsertLeague / upsertTeam / upsertPlayer
\* calls on an initially empty database, with arguments of the functions'
\* parameter types (name given; code, slug, abbreviation, logoUrl and
\* position optional).
\* ------------------------------------------------------------------------
\* the longest sequence of calls
MaxCalls == 3

\* leagues.ts 5-9: the argument of upsertLeague
LeagueInputs ==
  {[name |-> n[1], slug |-> n[2], espnLeagueCode |-> c] :
     n \in {<<"Premier League", <<"english", "premier", "league">>>>,
            <<"La Liga", <<"spanish", "la", "liga">>>>},
     c \in {"1", "2", "", Undefined}}

\* teams.ts 5-10: the argument of upsertTeam
TeamInputs ==
  {[espnTeamId |-> id, name |-> n, abbreviation |-> a[1], logoUrl |-> a[2]] :
     id \in {"t1", "t2"}, n \in {"Arsenal", "Arsenal FC"},
     a \in {<<"ARS", "logo">>, <<"AFC", Undefined>>, <<Undefined, Undefined>>}}

\* players.ts 5-9: the argument of upsertPlayer
PlayerInputs ==
  {[espnPlayerId |-> id, name |-> n, position |-> pos] :
     id \in {"p1", "p2"}, n \in {"Saka", "B. Saka"}, pos \in {"F", Undefined}}

UpsertInit ==
  /\ DbInit
  /\ BatchIdle
  /\ SchedIdle
  /\ CallIdle
  /\ OtherIdle

\* one direct call: the database it leaves and the row it returns
LogCall(op, data, r) ==
  /\ SetDb(r.db)
  /\ log' = Append(log, [op |-> op, arg |-> data, result |-> r.row])
  /\ UNCHANGED <<batchVars, schedVars, otherVars>>

CallUpsertLeague ==
  /\ Len(log) < MaxCalls
  /\ \E data \in LeagueInputs :
       LogCall("upsertLeague", data, UpsertLeague(DB, data))

CallUpsertTeam ==
  /\ Len(log) < MaxCalls
  /\ \E data \in TeamInputs :
       LogCall("upsertTeam", data, UpsertTeam(DB, data))

CallUpsertPlayer ==
  /\ Len(log) < MaxCalls
  /\ \E data \in PlayerInputs :
       LogCall("upsertPlayer", data, UpsertPlayer(DB, data))

UpsertNext == CallUpsertLeague \/ CallUpsertTeam \/ CallUpsertPlayer

UpsertSpec == UpsertInit /\ [][UpsertNext]_vars

\* ------------------------------------------------------------------------
\* PureSpec: one call of americanToDecimal or parseLeagueName on an argument
\* drawn from the sets below.
\* ------------------------------------------------------------------------
\* the largest American odds tried, either sign
MaxOdds == 200
\* the most words of a slug after its year prefix
MaxWords == 3

\* match-storage.ts 49-50: the odds strings, by what parseFloat makes of them
OddsInputs ==
  {[kind |-> "absent", n |-> 0], [kind |-> "text", n |-> 0]}
    \cup {[kind |-> "num", n |-> n] : n \in (0 - MaxOdds)..MaxOdds}

\* the tokens season slugs are made of
SlugWords == {"english", "premier", "league", "spanish", "la", "liga",
              "mystery", "cup", "2025", "26"}

\* match-storage.ts 19, 74: season slugs, with and without a year prefix
SlugInputs ==
  {prefix \o body :
     prefix \in {<<>>, <<"2025", "26">>},
     body \in UNION {[1..n -> SlugWords] : n \in 0..MaxWords}}

PureInit ==
  /\ DbInit
  /\ BatchIdle
  /\ SchedIdle
  /\ CallIdle
  /\ OtherIdle

\* one call of a pure helper: nothing but the log changes
LogPure(op, arg, result) ==
  /\ log' = Append(log, [op |-> op, arg |-> arg, result |-> result])
  /\ UNCHANGED <<dbVars, batchVars, schedVars, otherVars>>

CallAmericanToDecimal ==
  /\ log = <<>>
  /\ \E o \in OddsInputs : LogPure("americanToDecimal", o, AmericanToDecimal(o))

CallParseLeagueName ==
  /\ log = <<>>
  /\ \E slug \in SlugInputs :
       LogPure("parseLeagueName", slug, ParseLeagueName(slug))

PureNext == CallAmericanToDecimal \/ CallParseLeagueName

PureSpec == PureInit /\ [][PureNext]_vars

\* ------------------------------------------------------------------------
\* Properties of storeEvent / storeEvents (checked under Spec)
\* ------------------------------------------------------------------------
\* the last storeEvent call made, once there is one
LastCall == calls[Len(calls)]
LastEvent == events[LastCall.index]
LastStored == calls # <<>> /\ LastCall.outcome = "stored"

\* both calls of a two-call history ingested the same external event id
Reingested ==
  /\ Len(calls) = 2
  /\ calls[1].outcome = "stored"
  /\ calls[2].outcome = "stored"
  /\ events[1].id = events[2].id

MatchRows(db, eventId) == {m \in db.matches : m.espnEventId = eventId}

\* this step is a storeEvent call
IsStoreEventStep == Len(calls') = Len(calls) + 1

\* C1: after the same raw event (two competitors, tagged home and away) is
\* ingested twice, match_statistics holds exactly one row per (match, team)
\* of that match.
C1_OneStatisticsRowPerTeam ==
  (Reingested /\ events[1] = events[2] /\ Len(events[1].competitors) = 2)
    => \A m \in MatchRows(DB, events[1].id) :
         \A t \in {m.homeTeamId, m.awayTeamId} :
           Cardinality({r \in matchStatistics :
                          r.matchId = m.id /\ r.teamId = t}) = 1

\* the events C2 is about: no competition, fewer than two competitors, or
\* no competitor tagged home or none tagged away
IsIncomplete(e) ==
  \/ ~e.hasCompetitions
  \/ Len(e.competitors) < 2
  \/ FindTagged(e.competitors, "home") = 0
  \/ FindTagged(e.competitors, "away") = 0

\* C2: a storeEvent call on an incomplete event writes nothing to any table
\* and does not throw.
C2_IncompleteEventWritesNothing ==
  [][(IsStoreEventStep /\ IsIncomplete(events[idx]))
       => (dbVars' = dbVars /\ calls'[Len(calls')].outcome # "threw")]_vars

\* the rows of an event's match in playerMatchStats, with the internal ids
\* replaced by the feed's player and team ids
PlayerStatsView(db, eventId) ==
  {[player |-> p.espnPlayerId, team |-> t.espnTeamId,
    stats |-> [f \in StatFields |-> r[f]]] :
     <<r, p, t>> \in {x \in db.playerMatchStats \X db.players \X db.teams :
        /\ x[1].playerId = x[2].id
        /\ x[1].teamId = x[3].id
        /\ \E m \in MatchRows(db, eventId) : x[1].matchId = m.id}}

\* C4: after a storeEvent call that ingests an event, the playerMatchStats
\* rows of its match are those the call's payload alone gives (what the same
\* payload stores into an empty database), whatever was ingested before:
\* nothing accumulates and no row of an earlier payload is left.
C4_PlayerStatsOfLastPayload ==
  LastStored =>
    PlayerStatsView(DB, LastEvent.id)
      = PlayerStatsView(StoreEvent(EmptyDb, LastEvent).db, LastEvent.id)

\* a re-ingestion in which p1's goals went from 1 to 2
C4_Witness ==
  /\ Reingested
  /\ \E x \in PlayerStatsView(StoreEvent(EmptyDb, events[1]).db, events[1].id) :
       x.player = "p1" /\ x.stats.goals = 1
  /\ \E x \in PlayerStatsView(DB, events[2].id) :
       x.player = "p1" /\ x.stats.goals = 2

\* C5: after a storeEvent call that ingests an event, exactly one Match row
\* has its external id, the row kept the internal id it had before the call,
\* and league, teams, date, venue, status and scores are those of the call.
C5_MatchRowOfLastCall ==
  [][(IsStoreEventStep /\ calls'[Len(calls')].outcome = "stored")
       => LET e == events[idx]
              h == e.competitors[FindTagged(e.competitors, "home")]
              a == e.competitors[FindTagged(e.competitors, "away")]
              rows == MatchRows(DBNext, e.id)
          IN  /\ Cardinality(rows) = 1
              /\ \A m \in rows :
                   /\ \A old \in MatchRows(DB, e.id) : m.id = old.id
                   /\ \E l \in leagues' :
                        l.id = m.leagueId /\ l.espnLeagueCode = InsCol(e.seasonType)
                   /\ \E t \in teams' :
                        t.id = m.homeTeamId /\ t.espnTeamId = h.team.id
                   /\ \E t \in teams' :
                        t.id = m.awayTeamId /\ t.espnTeamId = a.team.id
                   /\ m.date = e.date
                   /\ m.venue = IF e.venueFullName # Undefined THEN e.venueFullName
                                ELSE InsCol(e.venueDisplayName)
                   /\ m.status \in {"scheduled", "live", "completed"}
                   /\ (m.status = "completed") = (e.hasStatus /\ e.completed)
                   /\ m.homeScore = h.score
                   /\ m.awayScore = a.score]_vars

\* the players an event's athlete lists or qualifying details touch
TouchedPlayers(e) ==
  {c.statistics[i].athletes[j].id :
     <<c, i, j>> \in {x \in {e.competitors[k] : k \in 1..Len(e.competitors)}
                              \X (1..3) \X (1..3) :
        /\ x[1].hasStatistics
        /\ x[2] <= Len(x[1].statistics)
        /\ x[1].statistics[x[2]].hasAthletes
        /\ x[3] <= Len(x[1].statistics[x[2]].athletes)
        /\ x[1].statistics[x[2]].athletes[x[3]].id # ""}}
  \cup
  {d.athletesInvolved[i].id :
     <<d, i>> \in {x \in {e.details[k] : k \in 1..Len(e.details)} \X (1..3) :
        /\ e.hasDetails
        /\ x[1].hasAthletes
        /\ x[2] <= Len(x[1].athletesInvolved)
        /\ x[1].athletesInvolved[x[2]].id # ""
        /\ \E k \in 1..Len(e.competitors) :
             e.competitors[k].team.id = x[1].athletesInvolved[x[2]].teamId
        /\ \/ x[1].yellowCard
           \/ x[1].redCard
           \/ /\ x[1].scoringPlay /\ ~x[1].ownGoal /\ ~x[1].penaltyKick
              /\ x[2] \in {1, 2}}}

PlayerStatRows(eventId, espnPlayerId) ==
  {r \in playerMatchStats :
     /\ \E m \in MatchRows(DB, eventId) : r.matchId = m.id
     /\ \E p \in players : p.id = r.playerId /\ p.espnPlayerId = espnPlayerId}

C7_MatchPlayerInsertIfAbsent ==
  [][/\ \A r \in matchPlayers : r \in matchPlayers'
     /\ \A r1, r2 \in matchPlayers' :
          (r1.matchId = r2.matchId /\ r1.playerId = r2.playerId
             /\ r1.teamId = r2.teamId) => r1 = r2]_vars

\* the same event, with appearances, was ingested twice
C7_Witness ==
  /\ Reingested
  /\ events[1] = events[2]
  /\ Cardinality(matchPlayers) >= 2

\* C8: storeEvents passes every event of the array to storeEvent, in array
\* order, whatever earlier calls threw, and itself returns normally.
C8_BatchSurvivesThrow ==
  /\ storeEventsResult \in {"running", "returned"}
  /\ \A i \in 1..Len(calls) : calls[i].index = i
  /\ Len(calls) = idx - 1
  /\ storeEventsResult = "returned" => Len(calls) = Len(events)

\* the first call threw, the second stored its event, storeEvents returned
C8_Witness ==
  /\ storeEventsResult = "returned"
  /\ Len(calls) >= 2
  /\ calls[1].outcome = "threw"
  /\ calls[2].outcome = "stored"

\* ------------------------------------------------------------------------
\* Properties of the scheduler (checked under SchedSpec)
\* ------------------------------------------------------------------------
\* n consecutive days from first
DaysFrom(first, n) == [i \in 1..n |-> first + i - 1]

\* C3: with the latest stored match date L 1 to 90 days before today D, one
\* fetchPastGames run requests exactly the days L+1 .. D, each once, in
\* ascending order.
C3_BackfillThroughToday ==
  (pastResult = "returned" /\ latestRead # NoNum
     /\ Today - latestRead \in 1..MAX_BACKFILL_DAYS)
    => pastRequested = DaysFrom(latestRead + 1, Today - latestRead)

\* C9: fetchAllGamesOnStartup never throws; once it is over it has returned.
C9_StartupNeverThrows ==
  /\ startupResult # "threw"
  /\ pc = "done" => startupResult = "returned"

\* the latest-match-date query failed, and the startup run still returned
C9_Witness ==
  /\ pc = "done"
  /\ pastResult = "threw"
  /\ startupResult = "returned"

\* C10: a failed request skips its own day only.  Whatever requests failed,
\* a backfill loop that was entered has requested every day of its range by
\* the time it is left, the forward fetch has requested all its days, and a
\* request that brought events handed them to storeEvents.
C10_FailedDayOnlySkipped ==
  /\ (pc \in {"pastEnd", "upcomingLoop", "upcomingEnd", "done"} /\ maxDays > 0)
       => pastRequested = DaysFrom(startDate, Min(maxDays, Today - startDate + 1))
  /\ (pc \in {"upcomingEnd", "done"} /\ pastResult = "returned")
       => upcomingRequested = DaysFrom(Today, UPCOMING_LAST_OFFSET + 1)
  /\ (pc = "pastLoop" /\ lastOutcome \in {"stored", "storeErr"})
       => lastStoredDay = pastRequested[Len(pastRequested)]
  /\ (pc = "upcomingLoop" /\ upcomingRequested # <<>>
        /\ lastOutcome \in {"stored", "storeErr"})
       => lastStoredDay = upcomingRequested[Len(upcomingRequested)]

\* the backfill is over, a request of the run failed, and the day after a
\* request was answered and its events stored; the same in the forward loop
C10_Witness ==
  /\ pc = "done"
  /\ anyFailed
  /\ Len(pastRequested) >= 2
  /\ lastOutcome = "stored"
  /\ latestMatchDate = Today + UPCOMING_LAST_OFFSET

\* the day of the latest backfill request
LastPastDay == pastRequested[Len(pastRequested)]

\* C11: in the backfill, a day whose request fails is requested again
\* before the loop goes on: the step after a day's first failed request is
\* a second request for the same day.
C11_FailedDayRequestedAgain ==
  [][(/\ pc = "pastLoop"
      /\ pastRequested # <<>>
      /\ lastOutcome = "fail"
      /\ Cardinality({i \in 1..Len(pastRequested) :
                        pastRequested[i] = LastPastDay}) = 1)
       => (/\ Len(pastRequested') = Len(pastRequested) + 1
           /\ pastRequested'[Len(pastRequested')] = LastPastDay)]_vars

\* C12: one fetchUpcomingGames run requests the 8 days today .. today+7,
\* each once and in ascending order, whatever the store holds and whatever
\* requests failed.
C12_UpcomingEightDays ==
  /\ \A i \in 1..Len(upcomingRequested) : upcomingRequested[i] = Today + i - 1
  /\ upcomingResult # "threw"
  /\ upcomingResult = "returned" => Len(upcomingRequested) = 8

\* the backfill had nothing to request, a forward request failed, and the
\* forward run still made its eight requests over a store that held a match
C12_Witness ==
  /\ upcomingResult = "returned"
  /\ latestRead # NoNum
  /\ pastRequested = <<>>
  /\ anyFailed
  /\ Len(upcomingRequested) = 8

\* C13: when the day after the latest stored match is today or later,
\* fetchPastGames returns without a request and without a write.
C13_NothingToCatchUp ==
  (latestRead # NoNum /\ latestRead + 1 >= Today /\ pc # "idle")
    => /\ pastRequested = <<>>
       /\ pc # "pastLoop"
       /\ pastResult = "returned"
       /\ pc = "pastEnd" => latestMatchDate = latestRead

\* the latest stored match is yesterday's: the first day to fetch is today
C13_Witness ==
  /\ pc = "pastEnd"
  /\ latestRead = Today - 1
  /\ startDate = Today
  /\ pastResult = "returned"

\* C14: one fetchPastGames run makes at most 90 requests, none for a day
\* after today; with no match stored the first requested day is 90 days
\* before today.
C14_BackfillCapped ==
  /\ Len(pastRequested) <= 90
  /\ \A i \in 1..Len(pastRequested) : pastRequested[i] <= Today
  /\ (pc # "idle" /\ latestRead = NoNum /\ pastRequested # <<>>)
       => pastRequested[1] = Today - 90

\* a gap longer than the cap: the run stopped at 90 requests
C14_Witness ==
  /\ pc = "pastEnd"
  /\ latestRead # NoNum
  /\ Today - latestRead > 90
  /\ Len(pastRequested) = 90

\* ------------------------------------------------------------------------
\* Properties of the entity upserts (checked under UpsertSpec)
\* ------------------------------------------------------------------------
\* the positions in the log of the calls of op whose argument has key k in
\* field f
CallsOf(op, f, k) ==
  {i \in 1..Len(log) : log[i].op = op /\ log[i].arg[f] = k}

FirstOf(S) == CHOOSE i \in S : \A j \in S : i <= j
LastOf(S) == CHOOSE i \in S : \A j \in S : j <= i

\* C15: for a non-empty external code, the League row keeps the name and
\* slug of the first upsertLeague call with that code; every later call with
\* the code, whatever its name, leaves the row as it is and returns it.
C15_LeagueFirstWriteWins ==
  \A c \in {"1", "2"} :
    LET S == CallsOf("upsertLeague", "espnLeagueCode", c)
    IN  S # {} =>
          /\ Cardinality({l \in leagues : l.espnLeagueCode = c}) = 1
          /\ \A l \in leagues :
               l.espnLeagueCode = c =>
                 /\ l.name = log[FirstOf(S)].arg.name
                 /\ l.slug = log[FirstOf(S)].arg.slug
                 /\ \A i \in S : log[i].result = l

\* code "1" was given the name Premier League, then La Liga
C15_Witness ==
  /\ Len(log) >= 2
  /\ log[1].op = "upsertLeague" /\ log[2].op = "upsertLeague"
  /\ log[1].arg.espnLeagueCode = "1" /\ log[2].arg.espnLeagueCode = "1"
  /\ log[1].arg.name = "Premier League" /\ log[2].arg.name = "La Liga"

\* C16: an upsertLeague call whose argument is that of the call before it
\* adds no League row, whatever the argument.
C16_UpsertLeagueIdempotent ==
  [][(/\ log # <<>>
      /\ Len(log') = Len(log) + 1
      /\ log[Len(log)].op = "upsertLeague"
      /\ log'[Len(log')].op = "upsertLeague"
      /\ log'[Len(log')].arg = log[Len(log)].arg)
       => leagues' = leagues]_vars

\* C17: for every external team (player) id given to upsertTeam
\* (upsertPlayer), exactly one row has that id, its internal id is the one
\* the first call returned, and its name, abbreviation and logo (name and
\* position) are those of the last call.
C17_TeamPlayerLastWriteWins ==
  /\ \A id \in {"t1", "t2"} :
       LET S == CallsOf("upsertTeam", "espnTeamId", id)
       IN  S # {} =>
             /\ Cardinality({t \in teams : t.espnTeamId = id}) = 1
             /\ \A t \in teams :
                  t.espnTeamId = id =>
                    /\ t.id = log[FirstOf(S)].result.id
                    /\ t.name = log[LastOf(S)].arg.name
                    /\ t.abbreviation = InsCol(log[LastOf(S)].arg.abbreviation)
                    /\ t.logoUrl = InsCol(log[LastOf(S)].arg.logoUrl)
  /\ \A id \in {"p1", "p2"} :
       LET S == CallsOf("upsertPlayer", "espnPlayerId", id)
       IN  S # {} =>
             /\ Cardinality({x \in players : x.espnPlayerId = id}) = 1
             /\ \A x \in players :
                  x.espnPlayerId = id =>
                    /\ x.id = log[FirstOf(S)].result.id
                    /\ x.name = log[LastOf(S)].arg.name
                    /\ x.position = InsCol(log[LastOf(S)].arg.position)

\* ------------------------------------------------------------------------
\* Properties of the pure helpers (checked under PureSpec)
\* ------------------------------------------------------------------------
\* the fraction q is the value of num / den
IsFraction(q, num, den) == q # NoOdds /\ q[2] # 0 /\ q[1] * den = num * q[2]

\* C18: americanToDecimal gives 1 + a/100 for positive odds a and
\* 1 + 100/|a| for negative a (2.5 for +150, 1.5 for -200), null for a string
\* that is no number, and never gives zero (it has no way to throw).
C18_AmericanToDecimal ==
  \A i \in 1..Len(log) :
    log[i].op = "americanToDecimal" =>
      LET o == log[i].arg
          q == log[i].result
      IN  /\ (o.kind = "num" /\ o.n > 0) => IsFraction(q, 100 + o.n, 100)
          /\ (o.kind = "num" /\ o.n < 0) => IsFraction(q, (0 - o.n) + 100, 0 - o.n)
          /\ (o.kind = "num" /\ o.n = 150) => IsFraction(q, 5, 2)
          /\ (o.kind = "num" /\ o.n = 0 - 200) => IsFraction(q, 3, 2)
          /\ o.kind # "num" => q = NoOdds
          /\ q = NoOdds \/ q[1] # 0

\* the function was given a string that is no number
C18_Witness ==
  /\ log # <<>>
  /\ log[1].op = "americanToDecimal"
  /\ log[1].arg.kind = "text"
  /\ log[1].result = NoOdds

\* the keys of the synonym table
SynonymKeys ==
  {"English Premier League", "Spanish La Liga", "Italian Serie A",
   "German Bundesliga", "French Ligue 1", "French Ligue 2",
   "Argentine Liga Professional", "Liga Professional", "Liga Profesional",
   "Liga Profesional De Futbol", "Liga Profesional Argentina",
   "Torneo Clausura", "Major League Soccer"}

\* the long form of a slug: the tokens after a leading YYYY-YY- prefix,
\* each with its first letter in upper case, joined by spaces
LongForm(slug) ==
  LET body == IF Len(slug) >= 3 /\ slug[1] = "2025" /\ slug[2] = "26"
              THEN [i \in 1..(Len(slug) - 2) |-> slug[i + 2]] ELSE slug
      joined[n \in 0..Len(body)] ==
        IF n = 0 THEN ""
        ELSE IF n = 1 THEN TitleCaseWord(body[1])
        ELSE joined[n - 1] \o " " \o TitleCaseWord(body[n])
  IN  joined[Len(body)]

\* C19: for a slug that is not empty, parseLeagueName gives the canonical
\* name of the slug's long form when the synonym table lists it and the long
\* form itself otherwise; the three named slugs give Premier League, La Liga
\* and Mystery Cup.
C19_ParseLeagueName ==
  \A i \in 1..Len(log) :
    (log[i].op = "parseLeagueName" /\ log[i].arg # <<>>) =>
      LET slug == log[i].arg
          name == log[i].result
      IN  /\ LongForm(slug) \notin SynonymKeys => name = LongForm(slug)
          /\ LongForm(slug) \in SynonymKeys => name = LeagueMap(LongForm(slug))
          /\ slug = <<"2025", "26", "english", "premier", "league">>
               => name = "Premier League"
          /\ slug = <<"spanish", "la", "liga">> => name = "La Liga"
          /\ slug = <<"2025", "26", "mystery", "cup">> => name = "Mystery Cup"

\* the function was given the slug of an unlisted league, with a year prefix
C19_Witness ==
  /\ log # <<>>
  /\ log[1].op = "parseLeagueName"
  /\ log[1].arg = <<"2025", "26", "mystery", "cup">>
  /\ log[1].result = "Mystery Cup"

\* ------------------------------------------------------------------------
\* Goals (checked under Spec)
\* ------------------------------------------------------------------------
\* the details of e that are scoring plays, neither own goal nor penalty,
\* with the player as first involved athlete
CleanGoalsOf(e, espnPlayerId) ==
  {k \in 1..Len(e.details) :
     /\ e.details[k].scoringPlay
     /\ ~e.details[k].ownGoal
     /\ ~e.details[k].penaltyKick
     /\ e.details[k].hasAthletes
     /\ Len(e.details[k].athletesInvolved) >= 1
     /\ e.details[k].athletesInvolved[1].id = espnPlayerId}

\* C20: after an event is ingested, every playerMatchStats row of its match
\* has goals equal to the number of the event's clean scoring details whose
\* first involved athlete is the row's player; the 2-1 event with one clean
\* home goal and one own goal is stored with scores 2 and 1, status
\* completed, and the own-goal scorer has no goal.
C20_GoalsAreCleanScoringPlays ==
  LastStored =>
    /\ \A x \in PlayerStatsView(DB, LastEvent.id) :
         x.stats.goals = Cardinality(CleanGoalsOf(LastEvent, x.player))
    /\ LastEvent = TwoOneEvent(LastEvent.id) =>
         /\ \A m \in MatchRows(DB, LastEvent.id) :
              m.homeScore = 2 /\ m.awayScore = 1 /\ m.status = "completed"
         /\ \A x \in PlayerStatsView(DB, LastEvent.id) :
              x.player = "p3" => x.stats.goals = 0
         /\ Cardinality({x \in PlayerStatsView(DB, LastEvent.id) :
                           x.stats.goals = 1}) = 1


\* ------------------------------------------------------------------------
\* Properties of the stored rows (checked under IngestSpec)
\* ------------------------------------------------------------------------
\* C21: every Match row has a home team other than its away team, whatever
\* payload storeEvent accepted.
C21_HomeAwayDistinct ==
  \A m \in matches : m.homeTeamId # m.awayTeamId


\* C22: the matchPlayers rows of one (matchId, playerId) agree on isHome: a
\* player is on one side of a match.
C22_PlayerOnOneSide ==
  \A r1, r2 \in matchPlayers :
    (r1.matchId = r2.matchId /\ r1.playerId = r2.playerId)
      => r1.isHome = r2.isHome


\* C24: the status stored by a storeEvent call is "completed" when the
\* payload's completed flag is true, whatever its state; otherwise "live"
\* exactly when the state is 'in'; otherwise "scheduled", also when the
\* payload has no status section.
C24_StatusOfPayload ==
  LastStored =>
    LET e == LastEvent
        done == e.hasStatus /\ e.completed
        running == e.hasStatus /\ e.state = "in"
    IN  /\ MatchRows(DB, e.id) # {}
        /\ \A m \in MatchRows(DB, e.id) :
             /\ m.status \in {"scheduled", "live", "completed"}
             /\ done => m.status = "completed"
             /\ (~done /\ running) => m.status = "live"
             /\ (~done /\ ~running) => m.status = "scheduled"

\* a match stored as live is ingested again from a payload that is
\* completed while its state is still 'in', and is stored as completed
C24_Witness ==
  /\ Reingested
  /\ ~events[1].completed /\ events[1].state = "in"
  /\ events[2].hasStatus /\ events[2].completed /\ events[2].state = "in"
  /\ \A m \in MatchRows(DB, events[2].id) : m.status = "completed"


\* the fields the athlete lists feed, and those nothing else feeds
ListFields ==
  {"shotsOnTarget", "assists", "passes", "passesCompleted", "tackles",
   "interceptions", "saves"}
ListOnlyFields == ListFields \ {"assists"}

\* the value an athlete entry carries, 1 when it carries none
EntryValue(a) ==
  IF a.value = NoNum /\ a.stat = NoNum /\ a.displayValue = NoNum THEN 1
  ELSE ExtractPlayerValue(a)

\* the values of player p in the entries of e classified to field f
ListValues(e, p, f) ==
  {EntryValue(AthleteEntries(e)[i].athlete) :
     i \in {j \in 1..Len(AthleteEntries(e)) :
              /\ AthleteEntries(e)[j].athlete.id = p
              /\ ClassifyAthleteStat(AthleteEntries(e)[j].name,
                                     AthleteEntries(e)[j].abbreviation) = f}}

LargestOf(S) == IF S = {} THEN 0 ELSE CHOOSE x \in S : \A y \in S : y <= x

ListedPlayers(e) ==
  {AthleteEntries(e)[i].athlete.id : i \in 1..Len(AthleteEntries(e))} \ {""}

\* the event with its play-by-play details taken away
ListsOnly(e) == [e EXCEPT !.hasDetails = FALSE, !.details = <<>>]

C30_OneLeaguePerName ==
  \A l1, l2 \in leagues : l1.name = l2.name => l1 = l2


\* ------------------------------------------------------------------------
\* Properties of the order of a startup run's calls (checked under SeqSpec)
\* ------------------------------------------------------------------------
\* this step sends a feed request
IsRequestStep ==
  Len(pastRequested') + Len(upcomingRequested')
    > Len(pastRequested) + Len(upcomingRequested)

\* C23: a startup run is strictly sequential.  A feed request is sent only
\* when no request is in flight, when storeEvents is not running and has
\* passed every event of the day before to storeEvent, and, for a request of
\* the forward fetch, when fetchPastGames has returned.
C23_StrictlySequential ==
  [][IsRequestStep =>
       /\ inFlight = 0
       /\ inFlight' = 1
       /\ storeEventsResult # "running"
       /\ Len(calls) = Len(events)
       /\ Len(upcomingRequested') > Len(upcomingRequested)
            => pastResult = "returned"]_vars

\* a day of the backfill brought two events, both went to storeEvent, and
\* the first request of the forward fetch is in flight
C23_Witness ==
  /\ pc = "upcomingAwait"
  /\ inFlight = 1
  /\ Len(pastRequested) >= 1
  /\ lastStoredDay = pastRequested[Len(pastRequested)]
  /\ Len(events) = 2
  /\ Len(calls) = 2
  /\ pastResult = "returned"


\* ------------------------------------------------------------------------
\* Properties of the past-year script (checked under ScriptSpec)
\* ------------------------------------------------------------------------
\* the positions of the requests, and of the sleeps, of the current day
FetchesOf(l) == {i \in 1..Len(l) : l[i].op = "fetch"}
SleepsOf(l) == {i \in 1..Len(l) : l[i].op = "sleep"}

\* a 429, a 5xx or a timeout
IsTransient(r) ==
  \/ r.kind = "abort"
  \/ r.kind = "http" /\ (r.status = 429 \/ r.status \in 500..599)

\* C26: for one day fetchScoreboardFromESPN sends at most MAX_RETRIES + 1 = 4
\* requests whatever 429, 5xx and timeout failures come; the sleep before
\* retry k+1 is 1000 * 2^k ms (1000, 2000, 4000); a request is sent again
\* only after a 429, a 5xx or a timeout; and when the last request of a day
\* fails the day is counted as failed and the loop goes on to the next day.
C26_BoundedRetries ==
  /\ [](/\ Cardinality(FetchesOf(log)) <= 4
        /\ Cardinality(SleepsOf(log)) <= 3
        /\ \A i \in 1..Len(log) :
             /\ log[i].op = (IF i % 2 = 1 THEN "fetch" ELSE "sleep")
             /\ log[i].op = "sleep" =>
                  log[i].arg = 1000 * (2 ^ ((i \div 2) - 1))
             /\ (log[i].op = "fetch" /\ i < Len(log)) => IsTransient(log[i].result)
        /\ pc = "done" =>
             stats.successfulDays + stats.failedDays = MaxScriptDays)
  /\ [][(pc = "fetch" /\ pc' = "loop" /\ ~ResponseOk(log'[Len(log')].result))
          => /\ stats'.failedDays = stats.failedDays + 1
             /\ stats'.successfulDays = stats.successfulDays
             /\ pc' = "loop"
             /\ dayOffset' = dayOffset]_vars
  /\ [][(pc = "loop" /\ dayOffset < MaxScriptDays - 1)
          => (pc' = "fetch" /\ dayOffset' = dayOffset + 1 /\ retryCount' = 0)]_vars

\* the first day failed; on the second day four requests met a 429, a
\* timeout, a 503 and a 500, with sleeps of 1000, 2000 and 4000 ms between
\* them, and the day is counted as failed too
C26_Witness ==
  /\ pc = "loop"
  /\ dayOffset = 1
  /\ stats.failedDays = 2
  /\ Len(log) = 7
  /\ log[1].result = [kind |-> "http", status |-> 429]
  /\ log[3].result = [kind |-> "abort", status |-> 0]
  /\ log[5].result = [kind |-> "http", status |-> 503]
  /\ log[7].result = [kind |-> "http", status |-> 500]
  /\ <<log[2].arg, log[4].arg, log[6].arg>> = <<1000, 2000, 4000>>


\* ------------------------------------------------------------------------
\* Properties of repeated startup runs (checked under DailySpec)
\* ------------------------------------------------------------------------
\* C27: over startup runs on successive days without request failures, a
\* fixture stored as scheduled by a forward fetch is requested again by a
\* later run on or after its match day, and every day between two runs is
\* requested by the later one: after a run, no followed fixture's match day
\* lies before the day of the run, and the days after the run before are all
\* among the requested ones.
C27_FixturesRefetched ==
  pc = "done" =>
    /\ \A d \in scheduledDays : d >= Today
    /\ \A d \in (Today - dayOffset + 1)..(Today - 1) :
         d \in DaysOf(pastRequested) \cup DaysOf(upcomingRequested)

\* C28: once two interleaved storeEvents calls for the same event have both
\* run to the end, the store holds one Match row for the event, at most one
\* MatchPlayer row per (matchId, playerId, teamId) and at most one
\* PlayerMatchStats row per (matchId, playerId).
BothCallsEnded ==
  /\ procs # <<>>
  /\ \A p \in DOMAIN procs : procs[p].pc = "done"

C28_ConcurrentCallsKeepRowsUnique ==
  BothCallsEnded =>
    /\ \A p \in DOMAIN procs :
         Cardinality({m \in matches : m.espnEventId = procs[p].event.id}) = 1
    /\ \A r1, r2 \in matchPlayers :
         (/\ r1.matchId = r2.matchId
          /\ r1.playerId = r2.playerId
          /\ r1.teamId = r2.teamId) => r1 = r2
    /\ \A r1, r2 \in playerMatchStats :
         (r1.matchId = r2.matchId /\ r1.playerId = r2.playerId) => r1 = r2

\* C29: when storeEvent has thrown while re-ingesting a stored match and
\* storeEvents has caught the error, every PlayerMatchStats row the earlier
\* ingestion stored for the match still has its row in the store.
FailedReingestion ==
  /\ procs # <<>>
  /\ \E p \in DOMAIN procs :
       /\ procs[p].pc = "threw"
       /\ \A q \in DOMAIN procs \ {p} : procs[q].pc = "begin"

C29_FailedReingestionKeepsStats ==
  FailedReingestion =>
    \A r \in PriorDb.playerMatchStats :
      \E s \in playerMatchStats :
        s.matchId = r.matchId /\ s.playerId = r.playerId

====
